---- MODULE Spec2Model ----
(***************************************************************************)
(* Instrument drivers and display components of the pymeasure fork: the    *)
(* command traffic each driver produces and the state it tracks, the       *)
(* console application and the overlay widget.  Each is modelled as a      *)
(* state machine whose actions are the driver's public operations; an      *)
(* action is the whole call, and records in a "last call" variable what    *)
(* the call put on the wire and how it ended.                              *)
(*                                                                         *)
(* One specification per component, defined at the end of the module.      *)
(* The variables of the components a specification does not run stay at    *)
(* their initial value.                                                    *)
(***************************************************************************)
EXTENDS Integers, Sequences, FiniteSets, TLC

VARIABLES
    tdk,    \* the TDK_Lambda_Base object, its VISA connection and the supply
    hp,     \* the HP4192A object and its VISA connection
    fw,     \* the FWBell5180_Adapter object and its USB transfers
    om,     \* the OmegaAdapter object and the controller's registers
    ks,     \* the Channel objects of the Keysight DSO1052B
    scope,  \* the KeysightDSO1052B object and the timebase it commanded
    daq,    \* a DAQModule object
    ls,     \* the LakeShore211 object and its last exchange
    con,    \* the ManagedConsole application and its Manager
    ov      \* the OverlayWidget, its labels and the experiments it shows

vars == <<tdk, hp, fw, om, ks, scope, daq, ls, con, ov>>

\* What a call on one object leaves alone: the other objects.
notTDK == <<hp, fw, om, ks, scope, daq, ls, con, ov>>
notHP == <<tdk, fw, om, ks, scope, daq, ls, con, ov>>
notFW == <<tdk, hp, om, ks, scope, daq, ls, con, ov>>
notOmega == <<tdk, hp, fw, ks, scope, daq, ls, con, ov>>
notKS == <<tdk, hp, fw, om, scope, daq, ls, con, ov>>
notScope == <<tdk, hp, fw, om, ks, daq, ls, con, ov>>
notDAQ == <<tdk, hp, fw, om, ks, scope, ls, con, ov>>
notLS == <<tdk, hp, fw, om, ks, scope, daq, con, ov>>
notCon == <<tdk, hp, fw, om, ks, scope, daq, ls, ov>>
notOV == <<tdk, hp, fw, om, ks, scope, daq, ls, con>>

\* A value that stands for Python's None / "no argument".
None == "None"

Last(s) == s[Len(s)]

(***************************************************************************)
(* TDK-Lambda Genesys power supply (tdk_base.py)                           *)
(***************************************************************************)

\* Currents are counted in milliamperes, so that a value that is no multiple
\* of the validators' step of 0.01 A can be written down.
\* current = Instrument.control(..., values=[0, 38]), step=0.01:
TDKCurrentMin == 0
TDKCurrentMax == 38000
TDKCurrentStep == 10

\* ramp_to_current(self, target_current, steps=20, pause=0.2)
TDKDefaultSteps == 20

\* A command string "<name>" or "<name> <argument>", kept as its two parts.
\* "PC %g" % v prints v with up to six significant digits, which shows every
\* value of the range with three decimals exactly: the argument is kept in mA.
\* An argument or a reply is a number (n) or a word (s).
TDKNum(n) == [s |-> "", n |-> n]
TDKStr(x) == [s |-> x, n |-> 0]
TDKNoArg == TDKStr("")
TDKCmd(name, arg) == [c |-> name, a |-> arg]

\* The commands of the supply that ask for a value (they contain "?").
TDKQueries == {"RMT?", "MDAV?", "MS?", "IDN?", "REV?", "SN?", "DATE?", "PV?", "MV?",
               "PC?", "MC?", "MODE?", "DVC?", "STT?", "FILTER?", "OUT?", "FLD?",
               "FBD?", "OVP?", "UVL?", "AST?"}

\* The supply answers every command with exactly one line: the value for a
\* query, "OK" for anything else (docstring of TDK_Lambda_Base.write).
TDKReply(cmd, instr) ==
    [to   |-> cmd,
     body |-> IF cmd.c = "PC?" THEN TDKNum(instr.pc)
              ELSE IF cmd.c = "OUT?" THEN TDKStr(instr.out)
              ELSE IF cmd.c \in TDKQueries THEN TDKStr("value")
              ELSE TDKStr("OK")]

\* What a command does to the supply.
TDKExec(cmd, instr) ==
    IF cmd.c = "PC" THEN [instr EXCEPT !.pc = cmd.a.n]
    ELSE IF cmd.c = "OUT" THEN [instr EXCEPT !.out = cmd.a.s]
    ELSE instr

\* A session is the state one driver call works on:
\*   buf    the VISA read buffer            instr  the supply
\*   sent   the commands this call sent     reads  the reads this call made, each
\*   err    None, or the exception raised          with the command just sent
TDKSession(buf, instr) ==
    [instr |-> instr, buf |-> buf, sent |-> <<>>, reads |-> <<>>, err |-> None]

\* connection.write(command): the command goes out, the supply acts and its
\* one-line answer lands in the read buffer.
VisaWrite(s, cmd) ==
    [s EXCEPT !.sent  = Append(@, cmd),
              !.buf   = Append(@, TDKReply(cmd, s.instr)),
              !.instr = TDKExec(cmd, @)]

\* connection.read(): the oldest unread line of the buffer.
VisaRead(s, cmd) ==
    [s EXCEPT !.buf   = Tail(@),
              !.reads = Append(@, [for |-> cmd, reply |-> Head(s.buf)])]

\* connection.query(command) is write followed by read.
VisaQuery(s, cmd) == VisaRead(VisaWrite(s, cmd), cmd)

\* TDK_Lambda_Base.ask: return self.adapter.connection.query(command).
\* The returned reply is the last entry of reads.
TDK_ask(s, cmd) == VisaQuery(s, cmd)

\* A write that only sends, as Instrument.write does: the "OK" stays unread.
TDK_write_send_only(s, cmd) == VisaWrite(s, cmd)

\* TDK_Lambda_Base.write: self.ask(command), the reply is dropped.
TDK_write(s, cmd) == TDK_ask(s, cmd)

TDKRaise(s, e) == [s EXCEPT !.err = e]

\* validators.strict_discrete_range(value, values, step): the value when it
\* lies in [values[0], values[1]] and is a multiple of step, else ValueError.
strict_discrete_range(value, lo, hi, step) ==
    lo <= value /\ value <= hi /\ value % step = 0

\* validators.strict_discrete_set(value, values): value in values.
strict_discrete_set(value, values) == value \in values

\* Instrument.control(...).fset: validate, then format, then self.write.
TDK_set_current(s, value) ==
    IF strict_discrete_range(value, TDKCurrentMin, TDKCurrentMax, TDKCurrentStep)
    THEN TDK_write(s, TDKCmd("PC", TDKNum(value)))
    ELSE TDKRaise(s, "ValueError")

\* Instrument.control(...).fget of current: self.ask("PC?"), as a number.
TDK_get_current(s) == TDK_ask(s, TDKCmd("PC?", TDKNoArg))

\* source_output = Instrument.control("OUT?", "OUT %s", values=["ON", "OFF"])
TDK_set_source_output(s, value) ==
    IF strict_discrete_set(value, {"ON", "OFF"})
    THEN TDK_write(s, TDKCmd("OUT", TDKStr(value)))
    ELSE TDKRaise(s, "ValueError")

\* ---- binary floating point, for the values np.linspace and round make ----

\* A natural number of any size is the sequence of its digits to the base
\* BigBase, the lowest first and the highest not 0; zero is the empty sequence.
BigBase == 256

RECURSIVE BigOf(_)
BigOf(n) == IF n = 0 THEN <<>> ELSE <<n % BigBase>> \o BigOf(n \div BigBase)

RECURSIVE BigValue(_)
BigValue(b) == IF b = <<>> THEN 0 ELSE b[1] + BigBase * BigValue(Tail(b))

RECURSIVE BigTrim(_)
BigTrim(b) ==
    IF b = <<>> \/ b[Len(b)] # 0 THEN b ELSE BigTrim(SubSeq(b, 1, Len(b) - 1))

BigAt(b, i) == IF i >= 1 /\ i <= Len(b) THEN b[i] ELSE 0

RECURSIVE BigAddFrom(_, _, _, _)
BigAddFrom(a, b, i, carry) ==
    IF i > Len(a) /\ i > Len(b) THEN BigOf(carry)
    ELSE LET t == BigAt(a, i) + BigAt(b, i) + carry
         IN  <<t % BigBase>> \o BigAddFrom(a, b, i + 1, t \div BigBase)

BigAdd(a, b) == BigAddFrom(a, b, 1, 0)

\* a - b for a >= b
RECURSIVE BigSubFrom(_, _, _, _)
BigSubFrom(a, b, i, borrow) ==
    IF i > Len(a) THEN <<>>
    ELSE LET t == BigAt(a, i) - BigAt(b, i) - borrow
         IN  <<(t + BigBase) % BigBase>>
             \o BigSubFrom(a, b, i + 1, IF t < 0 THEN 1 ELSE 0)

BigSub(a, b) == BigTrim(BigSubFrom(a, b, 1, 0))

\* -1, 0 or 1 as a is below, equal to or above b
RECURSIVE BigCmpFrom(_, _, _)
BigCmpFrom(a, b, i) ==
    IF i = 0 THEN 0
    ELSE IF a[i] # b[i] THEN (IF a[i] < b[i] THEN -1 ELSE 1)
    ELSE BigCmpFrom(a, b, i - 1)

BigCmp(a, b) ==
    IF Len(a) # Len(b) THEN (IF Len(a) < Len(b) THEN -1 ELSE 1)
    ELSE BigCmpFrom(a, b, Len(a))

\* a * k for a small natural k
RECURSIVE BigMulFrom(_, _, _, _)
BigMulFrom(a, k, i, carry) ==
    IF i > Len(a) THEN BigOf(carry)
    ELSE LET t == a[i] * k + carry
         IN  <<t % BigBase>> \o BigMulFrom(a, k, i + 1, t \div BigBase)

BigMul(a, k) == IF k = 0 THEN <<>> ELSE BigMulFrom(a, k, 1, 0)

\* Quotient and remainder of a by a small d > 0, from the highest digit down.
RECURSIVE BigDivFrom(_, _, _, _)
BigDivFrom(a, d, i, rem) ==
    IF i = 0 THEN [q |-> <<>>, r |-> rem]
    ELSE LET t     == BigBase * rem + a[i]
             lower == BigDivFrom(a, d, i - 1, t % d)
         IN  [q |-> Append(lower.q, t \div d), r |-> lower.r]

BigDivTrim(qr) == [q |-> BigTrim(qr.q), r |-> qr.r]

BigDiv(a, d) == BigDivTrim(BigDivFrom(a, d, Len(a), 0))

RECURSIVE Pow2(_)
Pow2(k) == IF k = 0 THEN 1 ELSE 2 * Pow2(k - 1)

\* The number of binary digits of a small natural, and of a big one.
RECURSIVE BitLength(_)
BitLength(n) == IF n = 0 THEN 0 ELSE 1 + BitLength(n \div 2)

BigBaseBits == BitLength(BigBase - 1)

BigBits(a) ==
    IF a = <<>> THEN 0 ELSE BigBaseBits * (Len(a) - 1) + BitLength(a[Len(a)])

\* a * 2^k
BigShiftLeft(a, k) ==
    IF a = <<>> THEN a
    ELSE [i \in 1..(k \div BigBaseBits) |-> 0] \o BigMul(a, Pow2(k % BigBaseBits))

\* floor(a / 2^k), and whether binary digits other than 0 were cut off
BigShiftCut(a, k) ==
    IF k \div BigBaseBits < Len(a) THEN k \div BigBaseBits ELSE Len(a)

BigShiftSticky(a, cut, qr) ==
    [q |-> qr.q, sticky |-> qr.r # 0 \/ \E i \in 1..cut : a[i] # 0]

BigShiftRight(a, k) ==
    BigShiftSticky(a, BigShiftCut(a, k),
                   BigDiv(SubSeq(a, BigShiftCut(a, k) + 1, Len(a)),
                          Pow2(k % BigBaseBits)))

BigOdd(a) == BigAt(a, 1) % 2 = 1

\* A double is neg, m, e: the number (-1)^neg * m * 2^e with m of exactly
\* FloatDigits binary digits; m is empty for zero.  (The numbers of a ramp
\* are far from the largest and the smallest double.)
FloatDigits == 53
FloatZero == [e |-> 0, neg |-> FALSE, m |-> <<>>]

\* floor(M / 2^k) rounded to the nearest integer, a tie to the even one,
\* for k >= 1; sticky: the number is a little above M.
BigRoundUp(cut, q, sticky) ==
    IF BigOdd(cut.q) /\ (sticky \/ cut.sticky \/ BigOdd(q))
    THEN BigAdd(q, <<1>>) ELSE q

BigRoundHalf(cut, sticky) == BigRoundUp(cut, BigDiv(cut.q, 2).q, sticky)

BigRoundRight(M, k, sticky) == BigRoundHalf(BigShiftRight(M, k - 1), sticky)

\* The double nearest to (-1)^neg * (M + x) * 2^e, a tie to the even one,
\* where 0 < x < 1 if sticky and x = 0 if not.
FloatCarry(neg, q, e) ==
    IF BigBits(q) > FloatDigits
    THEN [e |-> e + 1, neg |-> neg, m |-> BigDiv(q, 2).q]
    ELSE [e |-> e, neg |-> neg, m |-> q]

FloatRoundBy(neg, M, e, sticky, k) ==
    IF M = <<>> THEN FloatZero
    ELSE IF k <= 0 THEN [e |-> e + k, neg |-> neg, m |-> BigShiftLeft(M, -k)]
    ELSE FloatCarry(neg, BigRoundRight(M, k, sticky), e + k)

FloatRound(neg, M, e, sticky) ==
    FloatRoundBy(neg, M, e, sticky, BigBits(M) - FloatDigits)

FloatAbs(n) == IF n < 0 THEN -n ELSE n

\* float("n/d") for a decimal literal with the value n / d, d a small power
\* of ten: the nearest double.
FloatOfDiv(neg, qr, e) == FloatRound(neg, qr.q, e, qr.r # 0)

FloatOfRatio(n, d) ==
    FloatOfDiv(n < 0, BigDiv(BigShiftLeft(BigOf(FloatAbs(n)), 72), d), -72)

FloatNeg(a) == [a EXCEPT !.neg = ~@]

\* a + b
FloatAddSigned(a, b, A, B, e, c) ==
    FloatRound(IF c >= 0 THEN a.neg ELSE b.neg,
               IF a.neg = b.neg THEN BigAdd(A, B)
               ELSE IF c >= 0 THEN BigSub(A, B) ELSE BigSub(B, A),
               e, FALSE)

\* A and B are the two numbers as multiples of 2^e; equal numbers of
\* opposite sign give zero.
FloatAddAligned(a, b, A, B, e) ==
    IF a.neg # b.neg /\ BigCmp(A, B) = 0 THEN FloatZero
    ELSE FloatAddSigned(a, b, A, B, e, BigCmp(A, B))

FloatAddAt(a, b, e) ==
    FloatAddAligned(a, b, BigShiftLeft(a.m, a.e - e), BigShiftLeft(b.m, b.e - e), e)

FloatAdd(a, b) ==
    IF a.m = <<>> THEN b
    ELSE IF b.m = <<>> THEN a
    ELSE FloatAddAt(a, b, IF a.e < b.e THEN a.e ELSE b.e)

\* a * k and a / d for a small natural k and a small d > 0
FloatTimes(a, k) == FloatRound(a.neg, BigMul(a.m, k), a.e, FALSE)

FloatOver(a, d) == FloatOfDiv(a.neg, BigDiv(BigShiftLeft(a.m, 32), d), a.e - 32)

\* np.rint(a) as an integer: the nearest integer, a tie to the even one.
FloatSigned(neg, size) == IF neg THEN -size ELSE size

FloatRint(a) ==
    FloatSigned(a.neg, IF a.e >= 0 THEN BigValue(BigShiftLeft(a.m, a.e))
                       ELSE BigValue(BigRoundRight(a.m, -a.e, FALSE)))

\* Element i (from 0) of np.linspace(start, stop, num) for num >= 1, start
\* and stop given in 1/1000: step = (stop - start) / (num - 1), the element
\* is i * step + start, and the last one is stop itself; a step of 0, and
\* num = 1, give start.
linspaceStep(a, step, i) ==
    IF step.m = <<>> THEN a ELSE FloatAdd(FloatTimes(step, i), a)

linspaceOf(a, b, num, i) ==
    IF num = 1 THEN a
    ELSE IF i = num - 1 THEN b
    ELSE linspaceStep(a, FloatOver(FloatAdd(b, FloatNeg(a)), num - 1), i)

linspace(start, stop, num, i) ==
    linspaceOf(FloatOfRatio(start, 1000), FloatOfRatio(stop, 1000), num, i)

\* round(x, 2) of a numpy float, in 1/100: np.rint(x * 100) (numpy then
\* divides by 100).
round2(x) == FloatRint(FloatTimes(x, 100))

\* [round(i, 2) for i in np.linspace(self.current, target_current, steps)],
\* element i (from 0), in mA.  The exact value of the element is k / d
\* hundredths.  Where that is a tie between two hundredths, the errors of the
\* doubles decide and the element is computed in doubles; elsewhere the
\* doubles round as the exact value does (their error is below 10^-8 of a
\* hundredth, the distance to a tie at least 1 / 2d) and it is computed from
\* the exact value.
TDKRampValue(start, target, steps, i) ==
    LET k == IF steps = 1 THEN start ELSE start * (steps - 1 - i) + target * i
        d == IF steps = 1 THEN 10 ELSE 10 * (steps - 1)
    IN  IF (2 * k) % (2 * d) = d
        THEN 10 * round2(linspace(start, target, steps, i))
        ELSE 10 * ((2 * k + d) \div (2 * d))

TDKRampValues(start, target, steps) ==
    [i \in 1..steps |-> TDKRampValue(start, target, steps, i - 1)]

\* A frame is a ramp_to_current or shutdown call under way, seen where it
\* gives up control: asleep in sleep(pause) after it programmed currents[i],
\* or over (done).
\*   s         the session of the call       currents  the values of the ramp
\*   i         how many of them were sent    done      the call returned or raised
TDKFrame(s, currents, i) ==
    [s |-> s, i |-> i, currents |-> currents,
     done |-> s.err # None \/ Len(currents) = 0]

\* TDK_Lambda_Base.ramp_to_current(target_current, steps=20, pause=0.2), up
\* to its first sleep(pause): read self.current, build the list of values and
\* program the first of them.  An empty list ends the call at once.
TDKRampFirst(s1, currents) ==
    IF Len(currents) = 0 THEN TDKFrame(s1, currents, 0)
    ELSE TDKFrame(TDK_set_current(s1, currents[1]), currents, 1)

TDKRampFrom(s1, target, steps) ==
    TDKRampFirst(s1, TDKRampValues(Last(s1.reads).reply.body.n, target, steps))

TDK_ramp_to_current(s, target, steps) ==
    TDKRampFrom(TDK_get_current(s), target, steps)

\* The loop of ramp_to_current when sleep(pause) returns: the next value of
\* the list is programmed and the call sleeps again, or the list is used up
\* and ramp_to_current returns.  A setter that raises ends the call.
TDK_ramp_resume(f) ==
    IF f.i = Len(f.currents) THEN [f EXCEPT !.done = TRUE]
    ELSE TDKFrame(TDK_set_current(f.s, f.currents[f.i + 1]), f.currents, f.i + 1)

\* The same shutdown beginning with the output switched off.
TDK_shutdown_off_first(s) ==
    LET s1 == TDK_set_source_output(s, "OFF")
    IN  TDK_ramp_to_current(s1, 0, TDKDefaultSteps)

\* TDK_Lambda_Base.shutdown up to its first sleep: it calls
\* self.ramp_to_current(0.0).
TDK_shutdown(s) == TDK_ramp_to_current(s, 0, TDKDefaultSteps)

\* TDK_Lambda_Base.shutdown when a sleep(pause) of its ramp returns: the ramp
\* goes on; once it has returned, self.source_output = "OFF" follows, then
\* Instrument.shutdown(), which sends nothing.
TDK_shutdown_resume(f) ==
    LET r == TDK_ramp_resume(f)
    IN  IF r.done /\ r.s.err = None
        THEN [r EXCEPT !.s = TDK_set_source_output(r.s, "OFF")]
        ELSE r

\* ---- the TDK state machine ----

\* Inputs of the calls.
TDKRawSettings == {"CLS"}
TDKRawQueries  == {"IDN?", "PC?", "OUT?"}
TDKCurrentInputs == {12340, 12345, 38000, 38010}
TDKRampInputs ==
    {[target |-> 190, steps |-> TDKDefaultSteps], [target |-> 190, steps |-> 0],
     [target |-> 190, steps |-> 1], [target |-> 1150, steps |-> 3],
     [target |-> 50000, steps |-> 3]}
TDKOutputInputs == {"ON", "OFF", "on"}
TDKAddresses == {-1, 30, 31}

\* How many driver calls one run makes.
MaxTDKCalls == 2

\* The fields of tdk:
\*   buf    the VISA read buffer: replies of the supply that nobody read yet
\*   instr  the supply: programmed current (mA) and output state
\*   last   the most recent driver call that is over: commands sent, reads
\*          made, outcome
\*   calls  the ramp_to_current and shutdown calls that are asleep in
\*          sleep(pause), each in a thread of its own, in the order they
\*          began: the commands and reads of the call so far, the values of
\*          its ramp and how many of them it sent
\*   n      the number of calls made so far
TDKLast(op, arg, s) ==
    [arg |-> arg, sent |-> s.sent, reads |-> s.reads, err |-> s.err, op |-> op]

TDKCall(op, arg, f) ==
    [arg |-> arg, sent |-> f.s.sent, reads |-> f.s.reads, i |-> f.i,
     currents |-> f.currents, op |-> op]

TDKObject(s, op, arg) ==
    [n |-> 0, instr |-> s.instr, buf |-> s.buf,
     last |-> TDKLast(op, arg, s), calls |-> <<>>]

\* A call that does not sleep is over in one step, whatever calls are asleep.
TDKDone(op, arg, s) ==
    /\ tdk.n < MaxTDKCalls
    /\ tdk' = [n |-> tdk.n + 1, instr |-> s.instr, buf |-> s.buf,
               last |-> TDKLast(op, arg, s), calls |-> tdk.calls]
    /\ UNCHANGED notTDK

\* A ramp_to_current or shutdown is called and reaches frame f: it sleeps, or
\* it is over.
TDKBegin(op, arg, f) ==
    /\ tdk.n < MaxTDKCalls
    /\ tdk' = [n |-> tdk.n + 1, instr |-> f.s.instr,
               buf |-> f.s.buf,
               last |-> IF f.done THEN TDKLast(op, arg, f.s) ELSE tdk.last,
               calls |-> IF f.done THEN tdk.calls
                         ELSE Append(tdk.calls, TDKCall(op, arg, f))]
    /\ UNCHANGED notTDK

\* The sequence without its element k.
TDKWithout(seq, k) == SubSeq(seq, 1, k - 1) \o SubSeq(seq, k + 1, Len(seq))

\* The sleeping call k went on to frame f: it sleeps again, or it is over.
TDKPause(k, f) ==
    LET c == tdk.calls[k]
    IN  /\ tdk' = [n |-> tdk.n, instr |-> f.s.instr,
                   buf |-> f.s.buf,
                   last |-> IF f.done THEN TDKLast(c.op, c.arg, f.s) ELSE tdk.last,
                   calls |-> IF f.done THEN TDKWithout(tdk.calls, k)
                             ELSE [tdk.calls EXCEPT ![k] = TDKCall(c.op, c.arg, f)]]
        /\ UNCHANGED notTDK

TDKStart == TDKSession(tdk.buf, tdk.instr)

\* The frame of a sleeping call as it wakes up.
TDKAwake(c) ==
    TDKFrame([TDKStart EXCEPT !.sent = c.sent, !.reads = c.reads], c.currents, c.i)

\* The supply as the driver finds it: just switched on, or left at 38 A with
\* the output on.
TDKSupplies == {[pc |-> 0, out |-> "OFF"], [pc |-> TDKCurrentMax, out |-> "ON"]}
TDKPowerOn == TDKSession(<<>>, [pc |-> 0, out |-> "OFF"])
TDKAbsent == TDKObject(TDKPowerOn, "none", TDKNoArg)

\* address = Instrument.setting("ADR %d", validator=strict_discrete_set,
\* values=list(range(0, 31))): validate, then format, then self.write.
TDK_set_address(s, value) ==
    IF strict_discrete_set(value, 0..30)
    THEN TDK_write(s, TDKCmd("ADR", TDKNum(value)))
    ELSE TDKRaise(s, "ValueError")

\* TDK_Lambda_Base.__init__(adapter, address): self.address = address.
TDK_init(s, a) == TDKObject(TDK_set_address(s, a), "init", TDKNum(a))

TDKWrite == \E c \in TDKRawSettings \cup TDKRawQueries :
    TDKDone("write", TDKStr(c), TDK_write(TDKStart, TDKCmd(c, TDKNoArg)))

TDKAsk == \E c \in TDKRawSettings \cup TDKRawQueries :
    TDKDone("ask", TDKStr(c), TDK_ask(TDKStart, TDKCmd(c, TDKNoArg)))

TDKSetCurrent == \E v \in TDKCurrentInputs :
    TDKDone("set_current", TDKNum(v), TDK_set_current(TDKStart, v))

TDKGetCurrent == TDKDone("get_current", TDKNoArg, TDK_get_current(TDKStart))

TDKSetOutput == \E v \in TDKOutputInputs :
    TDKDone("set_source_output", TDKStr(v), TDK_set_source_output(TDKStart, v))

\* ramp_to_current is called and runs up to its first sleep(pause).
TDKRamp == \E x \in TDKRampInputs :
    TDKBegin("ramp_to_current", TDKNum(x.target),
             TDK_ramp_to_current(TDKStart, x.target, x.steps))

\* shutdown is called and runs up to the first sleep(pause) of its ramp.
TDKShutdown == TDKBegin("shutdown", TDKNoArg, TDK_shutdown(TDKStart))

\* sleep(pause) returns in one of the calls that are asleep.
TDKWake == \E k \in 1..Len(tdk.calls) :
    TDKPause(k, IF tdk.calls[k].op = "shutdown"
                THEN TDK_shutdown_resume(TDKAwake(tdk.calls[k]))
                ELSE TDK_ramp_resume(TDKAwake(tdk.calls[k])))

TDKNext ==
    \/ TDKWrite
    \/ TDKAsk
    \/ TDKSetCurrent
    \/ TDKGetCurrent
    \/ TDKSetOutput
    \/ TDKRamp
    \/ TDKShutdown
    \/ TDKWake

\* ---- claims about the TDK driver ----

\* Every command of a trace was followed by one read that returned the
\* reply to that very command.
TDKRepliesRead(sent, reads) ==
    /\ Len(reads) = Len(sent)
    /\ \A i \in 1..Len(reads) :
          reads[i].for = sent[i] /\ reads[i].reply.to = sent[i]

\* C1: after every call, and whenever a ramp sleeps, each command the call
\* sent was followed by one read that returned the reply to that very
\* command, and no reply is left unread in the VISA read buffer.
C1_EveryReplyRead ==
    /\ tdk.buf = <<>>
    /\ TDKRepliesRead(tdk.last.sent, tdk.last.reads)
    /\ \A k \in 1..Len(tdk.calls) :
          TDKRepliesRead(tdk.calls[k].sent, tdk.calls[k].reads)

\* C1 witness: an ask("PC?") made after a current was set (so an "OK" had
\* been produced before) returned the programmed current.
C1_Witness ==
    /\ tdk.last.op = "ask"
    /\ tdk.last.arg = TDKStr("PC?")
    /\ tdk.instr.pc = 12340
    /\ Last(tdk.last.reads).reply.body = TDKNum(12340)

\* Positions of the commands of a shutdown's trace.
TDKSetPositions(sent) == {i \in 1..Len(sent) : sent[i].c = "PC"}
TDKOffPositions(sent) == {i \in 1..Len(sent) : sent[i] = TDKCmd("OUT", TDKStr("OFF"))}

\* C8: a shutdown sends every current-set command of its ramp before its
\* "OUT OFF", the last current it programs before "OUT OFF" is 0, and it
\* sends no "OUT OFF" while its ramp is under way, whatever other calls run
\* during its pauses; when it is over the output is off, and the current is
\* zero when it was the only call.
C8_RampThenOff ==
    /\ \A k \in 1..Len(tdk.calls) :
          tdk.calls[k].op = "shutdown" =>
              /\ TDKOffPositions(tdk.calls[k].sent) = {}
              /\ Cardinality(TDKSetPositions(tdk.calls[k].sent)) = tdk.calls[k].i
    /\ tdk.last.op = "shutdown" =>
        LET sent == tdk.last.sent
            sets == TDKSetPositions(sent)
            offs == TDKOffPositions(sent)
        IN  /\ tdk.last.err = None
            /\ Cardinality(offs) = 1
            /\ Last(sent) = TDKCmd("OUT", TDKStr("OFF"))
            /\ Cardinality(sets) = TDKDefaultSteps
            /\ \A k \in offs : \A i \in sets : i < k
            /\ sent[Len(sent) - 1] = TDKCmd("PC", TDKNum(0))
            /\ tdk.instr.out = "OFF"
            /\ tdk.n = 1 => tdk.instr.pc = 0

\* C8 witness: a shutdown from the full 38 A is over while a ramp that
\* another thread began during its pauses is still asleep.
C8_Witness ==
    /\ tdk.last.op = "shutdown"
    /\ Len(tdk.last.sent) = TDKDefaultSteps + 2
    /\ tdk.last.sent[2] = TDKCmd("PC", TDKNum(38000))
    /\ tdk.last.sent[3] = TDKCmd("PC", TDKNum(36000))
    /\ tdk.instr.out = "OFF"
    /\ tdk.calls # <<>>

(***************************************************************************)
(* Python values, as far as the drivers below need them                    *)
(***************************************************************************)

\* Numbers are kept in units of 1/PyScale, so that the smallest limit of the
\* driver, .0005 kHz, is an integer.
PyScale == 10000

\* A Python value: its type t, with its content in n for a number (a float
\* in 1/PyScale, an int as it is, a bool as 0 or 1) and in s for a str.
PyI(n) == [s |-> "", n |-> n, t |-> "int"]
PyF(n) == [s |-> "", n |-> n, t |-> "float"]
PyB(b) == [s |-> "", n |-> IF b THEN 1 ELSE 0, t |-> "bool"]
PyS(x) == [s |-> x, n |-> 0, t |-> "str"]
\* An attribute that does not exist.
PyAbsent == [s |-> "", n |-> 0, t |-> "absent"]
\* None
PyNone == [s |-> "", n |-> 0, t |-> "NoneType"]

PyIsNum(x) == x.t \in {"int", "float", "bool"}

\* The numeric value of an int, float or bool, in 1/PyScale.
PyNum(x) == IF x.t = "float" THEN x.n ELSE x.n * PyScale

\* Python's ==: numbers (bool included) compare by value, strings by content.
PyEq(a, b) ==
    IF PyIsNum(a) /\ PyIsNum(b) THEN PyNum(a) = PyNum(b)
    ELSE a.t = b.t /\ a.s = b.s

\* The result of an expression: the value, or the exception raised.
PyOk(x) == [err |-> None, val |-> x]
PyErr(e) == [err |-> e, val |-> PyAbsent]

\* Strings that int() and float() read as a number (one digit is all the
\* inputs use); any other string makes them raise ValueError.
PyDigit ==
    [d \in {"0", "1", "2", "3", "4", "5", "6", "7", "8", "9"} |->
        CASE d = "0" -> 0 [] d = "1" -> 1 [] d = "2" -> 2 [] d = "3" -> 3
          [] d = "4" -> 4 [] d = "5" -> 5 [] d = "6" -> 6 [] d = "7" -> 7
          [] d = "8" -> 8 [] d = "9" -> 9]

\* n / PyScale cut towards zero, as int() cuts a float.
PyTrunc(n) == IF n >= 0 THEN n \div PyScale ELSE -((-n) \div PyScale)

\* int(x)
PyInt(x) ==
    IF x.t = "int" THEN PyOk(x)
    ELSE IF x.t = "bool" THEN PyOk(PyI(x.n))
    ELSE IF x.t = "float" THEN PyOk(PyI(PyTrunc(x.n)))
    ELSE IF x.s \in DOMAIN PyDigit THEN PyOk(PyI(PyDigit[x.s]))
    ELSE PyErr("ValueError")

\* float(x)
PyFloat(x) ==
    IF x.t = "float" THEN PyOk(x)
    ELSE IF x.t \in {"int", "bool"} THEN PyOk(PyF(PyNum(x)))
    ELSE IF x.s \in DOMAIN PyDigit THEN PyOk(PyF(PyDigit[x.s] * PyScale))
    ELSE PyErr("ValueError")

\* min(values) and max(values) of a list of numbers, in 1/PyScale.
PyMin(values) ==
    CHOOSE m \in {PyNum(values[i]) : i \in 1..Len(values)} :
        \A i \in 1..Len(values) : m <= PyNum(values[i])
PyMax(values) ==
    CHOOSE m \in {PyNum(values[i]) : i \in 1..Len(values)} :
        \A i \in 1..Len(values) : m >= PyNum(values[i])

\* validators.strict_range(value, values): the value if
\* min(values) <= value <= max(values), else ValueError.  Comparing a str
\* with a number raises TypeError.
strict_range(value, values) ==
    IF ~PyIsNum(value) THEN PyErr("TypeError")
    ELSE IF PyMin(values) <= PyNum(value) /\ PyNum(value) <= PyMax(values)
         THEN PyOk(value)
         ELSE PyErr("ValueError")

\* validators.strict_discrete_set(value, values) on Python values:
\* the value if (value in values), else ValueError.
strict_discrete_set_py(value, values) ==
    IF \E i \in 1..Len(values) : PyEq(value, values[i])
    THEN PyOk(value)
    ELSE PyErr("ValueError")

(***************************************************************************)
(* Hewlett-Packard 4192A impedance analyzer (hp4192A.py)                   *)
(***************************************************************************)

\* HP4192A_settings.__init__: the attributes and their power-on values.
HP4192A_settings ==
    [spot_frequency  |-> PyF(100 * PyScale),
     osc_level       |-> PyF(1 * PyScale),
     start_frequency |-> PyF(50),
     end_frequency   |-> PyF(13000 * PyScale),
     step_frequency  |-> PyF(1 * PyScale),
     spot_bias       |-> PyF(0),
     start_bias      |-> PyF(-35 * PyScale),
     end_bias        |-> PyF(35 * PyScale),
     step_bias       |-> PyF(1 * PyScale),
     display_a       |-> PyI(1),
     display_b       |-> PyI(1),
     display_a_dev   |-> PyS("N"),
     display_b_dev   |-> PyS("N"),
     dc_bias         |-> PyB(FALSE),
     zero_open       |-> PyB(FALSE),
     zero_short      |-> PyB(FALSE),
     average         |-> PyB(FALSE),
     high_speed      |-> PyB(FALSE),
     log_sweep       |-> PyB(FALSE),
     sweep_mode      |-> PyB(FALSE),
     circuit_mode    |-> PyI(1),
     zy_range        |-> PyI(7),
     trigger         |-> PyI(1),
     data_ready      |-> PyB(FALSE),
     data_format     |-> PyI(0)]

\* One property made by HP4192A.setting(set_command, docs, attr, validator,
\* values, set_process, self_validator).
HPSetting(fmt, attr, validator, values, process, guarded) ==
    [values |-> values, fmt |-> fmt, attr |-> attr, validator |-> validator,
     set_process |-> process, self_validator |-> guarded]

HPBits == <<PyI(0), PyI(1)>>
HPFreq == <<PyF(5), PyF(13000 * PyScale)>>
HPBias == <<PyF(-35 * PyScale), PyF(35 * PyScale)>>
HPDevs == <<PyS("N"), PyS("D"), PyS("P")>>

\* The setting properties of class HP4192A, by name.
HPProperty ==
    [spot_frequency     |-> HPSetting("FR%sEN", "spot_frequency", "strict_range", HPFreq, "float", FALSE),
     osc_level          |-> HPSetting("OL%sEN", "osc_level", "strict_range", <<PyF(50), PyF(11000)>>, "float", FALSE),
     start_frequency    |-> HPSetting("TF%sEN", "start_frequency", "strict_range", HPFreq, "float", FALSE),
     end_frequency      |-> HPSetting("PF%sEN", "end_frequency", "strict_range", HPFreq, "float", FALSE),
     step_frequency     |-> HPSetting("SF%sEN", "step_frequency", "strict_range", HPFreq, "float", FALSE),
     spot_bias          |-> HPSetting("BI%sEN", "spot_bias", "strict_range", HPBias, "float", FALSE),
     start_bias         |-> HPSetting("TB%sEN", "start_bias", "strict_range", HPBias, "float", FALSE),
     end_bias           |-> HPSetting("PB%sEN", "end_bias", "strict_range", HPBias, "float", FALSE),
     display_a          |-> HPSetting("A%s", "display_a", "strict_range", <<PyI(1), PyI(7)>>, "int", FALSE),
     display_b          |-> HPSetting("B%s", "display_b", "strict_range", <<PyI(1), PyI(7)>>, "int", FALSE),
     display_a_dev      |-> HPSetting("A%s", "display_a_dev", "strict_discrete_set", HPDevs, "int", FALSE),
     display_b_dev      |-> HPSetting("B%s", "display_b_dev", "strict_discrete_set", HPDevs, "int", FALSE),
     dc_bias            |-> HPSetting("I%s", "dc_bias", "strict_discrete_set", <<PyI(0)>>, "int", TRUE),
     zero_open          |-> HPSetting("ZO%s", "zero_open", "strict_discrete_set", HPBits, "int", TRUE),
     zero_short         |-> HPSetting("ZS%s", "zero_short", "strict_discrete_set", HPBits, "int", TRUE),
     average            |-> HPSetting("V%s", "average", "strict_discrete_set", HPBits, "int", FALSE),
     high_speed         |-> HPSetting("H%s", "high_speed", "strict_discrete_set", HPBits, "int", FALSE),
     log_sweep          |-> HPSetting("G%s", "log_sweep", "strict_discrete_set", HPBits, "int", FALSE),
     sweep_mode         |-> HPSetting("W%s", "sweep_mode", "strict_discrete_set", HPBits, "int", FALSE),
     circuit_mode       |-> HPSetting("C%s", "circuit_mode", "strict_range", <<PyI(1), PyI(3)>>, "int", FALSE),
     zy_range           |-> HPSetting("R%s", "zy_range", "strict_range", <<PyI(1), PyI(8)>>, "int", TRUE),
     trigger            |-> HPSetting("T%s", "trigger", "strict_range", <<PyI(1), PyI(3)>>, "int", FALSE),
     data_ready         |-> HPSetting("D%s", "data_ready", "strict_discrete_set", HPBits, "int", FALSE),
     data_format        |-> HPSetting("F%s", "average", "strict_discrete_set", HPBits, "int", FALSE),
     manual_sweep       |-> HPSetting("W%s", "manual_sweep", "strict_discrete_set", <<PyI(2), PyI(4)>>, "int", FALSE),
     test_level_monitor |-> HPSetting("T%s", "test_level_monitor", "strict_discrete_set", <<PyS("V"), PyS("A")>>, "int", TRUE),
     self_test          |-> HPSetting("S%s", "self_test", "strict_discrete_set", <<PyI(1)>>, "int", FALSE)]

HPProperties == DOMAIN HPProperty

\* Every attribute self.settings can come to hold: those of
\* HP4192A_settings and those setattr adds.
HPAttributes == DOMAIN HP4192A_settings \cup {HPProperty[p].attr : p \in HPProperties}

\* getattr(self.settings, attr): AttributeError when there is none.
HPGetattr(settings, attr) ==
    IF settings[attr].t = "absent" THEN PyErr("AttributeError") ELSE PyOk(settings[attr])

\* fget of HP4192A.setting: return getattr(self.settings, attr)
HP_fget(settings, p) == HPGetattr(settings, HPProperty[p].attr)

\* validator(value, values) of a property
HPValidate(d, value) ==
    IF d.validator = "strict_range" THEN strict_range(value, d.values)
    ELSE strict_discrete_set_py(value, d.values)

\* HP4192A.display_validator(self, value, values, validator)
HP_display_validator(settings, d, value) ==
    IF PyNum(settings.display_a) < 5 * PyScale
    THEN HPValidate(d, value)
    ELSE PyErr("ValueError")

\* set_process(value): int(x) or float(x)
HPSetProcess(d, value) ==
    IF d.set_process = "int" THEN PyInt(value) ELSE PyFloat(value)

\* The state one call works on: the tracked settings, the connection, what
\* the call did on the bus so far, and the exception it raised (None: none).
HPState(settings, conn) ==
    [err |-> None, settings |-> settings, conn |-> conn, events |-> <<>>]

\* The command string set_command % str(value), kept as its two parts; a
\* fixed command such as 'AB' has no value.
HPCommand(fmt, value) == [arg |-> value, fmt |-> fmt]
HPNoCommand == HPCommand("", PyAbsent)

HPEvent(e, cmd) == [cmd |-> cmd, e |-> e]

\* self.write(command): the command goes to the instrument; on a closed
\* session pyvisa raises and nothing is sent.
HP_write(st, cmd) ==
    IF st.conn # "open" THEN [st EXCEPT !.err = "InvalidSession"]
    ELSE [st EXCEPT !.events = Append(@, HPEvent("write", cmd))]

\* self.adapter.connection.clear()
HP_clear(st) ==
    IF st.conn # "open" THEN [st EXCEPT !.err = "InvalidSession"]
    ELSE [st EXCEPT !.events = Append(@, HPEvent("clear", HPNoCommand))]

\* self.adapter.connection.close(); closing a closed session does nothing.
HP_close(st) ==
    IF st.conn # "open" THEN st
    ELSE [st EXCEPT !.events = Append(@, HPEvent("close", HPNoCommand)), !.conn = "closed"]


\* A setter that stores the value before it validates and writes.
HP_fset_store_first(st, p, value) ==
    LET d == HPProperty[p]
        v == HPSetProcess(d, value)
        st1 == IF v.err = None THEN [st EXCEPT !.settings[d.attr] = v.val] ELSE st
        w == IF d.self_validator THEN HP_display_validator(st.settings, d, value)
             ELSE HPValidate(d, value)
    IN  IF w.err # None THEN [st1 EXCEPT !.err = w.err]
        ELSE IF v.err # None THEN [st1 EXCEPT !.err = v.err]
        ELSE HP_write(st1, HPCommand(d.fmt, v.val))

\* fset of HP4192A.setting: validate (through self_validator when there is
\* one), set_process, format, write, and only then setattr.
HP_fset(st, p, value) ==
    LET d == HPProperty[p]
        w == IF d.self_validator THEN HP_display_validator(st.settings, d, value)
             ELSE HPValidate(d, value)
        v == IF w.err = None THEN HPSetProcess(d, w.val) ELSE w
    IN  IF v.err # None THEN [st EXCEPT !.err = v.err]
        ELSE LET st1 == HP_write(st, HPCommand(d.fmt, v.val))
             IN  IF st1.err # None THEN st1
                 ELSE [st1 EXCEPT !.settings[d.attr] = v.val]

\* HP4192A.FUNCTION_MODES['modes']: the (display_a, display_b) pair of every
\* mode, in the order of the dictionary.
FUNCTION_MODES ==
    << <<1, 1>>, <<1, 2>>, <<2, 1>>, <<3, 1>>, <<3, 2>>, <<3, 3>>, <<4, 1>>,
       <<4, 2>>, <<4, 3>>, <<5, 1>>, <<5, 2>>, <<5, 3>>, <<6, 1>>, <<7, 1>> >>

\* HP4192A.set_mode(mode_idx): the mode at that index of the list of keys (a
\* negative index counts from the end, one outside the list raises
\* IndexError), then self.display_a = mode[0] and self.display_b = mode[1].
HP_set_mode(st, mode_idx) ==
    LET n == Len(FUNCTION_MODES)
        i == IF mode_idx < 0 THEN mode_idx + n ELSE mode_idx
        mode == FUNCTION_MODES[i + 1]
        st1 == HP_fset(st, "display_a", PyI(mode[1]))
    IN  IF i < 0 \/ i >= n THEN [st EXCEPT !.err = "IndexError"]
        ELSE IF st1.err # None THEN st1
        ELSE HP_fset(st1, "display_b", PyI(mode[2]))

\* HP4192A.sweep_abort: self.write('AB')
HP_sweep_abort(st) == HP_write(st, HPCommand("AB", PyAbsent))

\* HP4192A.execute: self.write('EX')
HP_execute(st) == HP_write(st, HPCommand("EX", PyAbsent))

\* HP4192A.reset: self.adapter.connection.clear()
HP_reset(st) == HP_clear(st)

\* A shutdown that clears the device before it aborts the sweep.
HP_shutdown_clear_first(st) ==
    LET st1 == HP_clear(st)
        st2 == IF st1.err # None THEN st1 ELSE HP_sweep_abort(st1)
    IN  IF st2.err # None THEN st2 ELSE HP_close(st2)

\* HP4192A.shutdown: sweep_abort(), connection.clear(), connection.close(),
\* then Instrument.shutdown(), which sends nothing.
HP_shutdown(st) ==
    LET st1 == HP_sweep_abort(st)
        st2 == IF st1.err # None THEN st1 ELSE HP_clear(st1)
    IN  IF st2.err # None THEN st2 ELSE HP_close(st2)

\* ---- the HP4192A state machine ----

\* How many calls one run of the driver makes.
MaxHPOps == 2

\* The values the setters are called with.
HPValues == {PyI(0), PyI(1), PyI(6), PyF(15000), PyS("V"), PyS("N")}

\* The indexes set_mode is called with.
HPModeIndexes == {-15, -1, 0, 5, 12, 13, 14}

\* HP4192A.__init__: self.settings = HP4192A_settings(); nothing is sent.
\* The fields of hp:
\*   settings  self.settings, attribute name -> tracked value
\*   conn      the VISA connection, "open" or "closed"
\*   last      the most recent driver call: what it did on the bus, its outcome,
\*             and display_a as it was when the call began ("before")
\*   lastSet   history: property -> the value last set through it (absent: none)
\*   ops       the number of calls made so far
HP_init ==
    [last     |-> [err |-> None, value |-> PyAbsent, op |-> "init",
                   events |-> <<>>, prop |-> None, before |-> PyAbsent],
     settings |-> [a \in HPAttributes |->
                      IF a \in DOMAIN HP4192A_settings THEN HP4192A_settings[a]
                      ELSE PyAbsent],
     conn     |-> "open",
     lastSet  |-> [p \in HPProperties |-> PyAbsent],
     ops      |-> 0]

HPStart == HPState(hp.settings, hp.conn)

\* The value last set through property q once the call that ended in st is
\* over: set_mode assigned display_a if it wrote anything and display_b if it
\* did not raise.
HPLastSet(op, p, st, q) ==
    IF op = "set" /\ st.err = None /\ q = p
    THEN st.settings[HPProperty[q].attr]
    ELSE IF op = "set_mode" /\ q = "display_a" /\ st.events # <<>>
    THEN st.settings[HPProperty[q].attr]
    ELSE IF op = "set_mode" /\ q = "display_b" /\ st.err = None
    THEN st.settings[HPProperty[q].attr]
    ELSE hp.lastSet[q]

HPDone(op, p, value, st) ==
    /\ hp.ops < MaxHPOps
    /\ hp' = [last     |-> [err |-> st.err, value |-> value, op |-> op,
                            events |-> st.events,
                            prop |-> p, before |-> hp.settings.display_a],
              settings |-> st.settings,
              conn     |-> st.conn,
              lastSet  |-> [q \in HPProperties |-> HPLastSet(op, p, st, q)],
              ops      |-> hp.ops + 1]
    /\ UNCHANGED notHP

HPSet == \E p \in HPProperties, v \in HPValues :
    HPDone("set", p, v, HP_fset(HPStart, p, v))

HPSetMode == \E mode_idx \in HPModeIndexes :
    HPDone("set_mode", None, PyI(mode_idx), HP_set_mode(HPStart, mode_idx))

HPSweepAbort == HPDone("sweep_abort", None, PyAbsent, HP_sweep_abort(HPStart))

HPExecute == HPDone("execute", None, PyAbsent, HP_execute(HPStart))

HPReset == HPDone("reset", None, PyAbsent, HP_reset(HPStart))

HPShutdown == HPDone("shutdown", None, PyAbsent, HP_shutdown(HPStart))

HPNext ==
    \/ HPSet
    \/ HPSetMode
    \/ HPSweepAbort
    \/ HPExecute
    \/ HPReset
    \/ HPShutdown

\* ---- claims about the HP4192A driver ----

\* What a read of property p should give: the value last set through p, or
\* the power-on value of the attribute named p.
HPExpected(p) ==
    IF hp.lastSet[p].t # "absent" THEN hp.lastSet[p] ELSE HP4192A_settings[p]

\* C2: reading a setting property returns the value last set through that
\* property, or its power-on default if it was never set.
C2_ReadReturnsOwnSetting ==
    \A p \in HPProperties :
        (hp.lastSet[p].t # "absent" \/ p \in DOMAIN HP4192A_settings) =>
            LET r == HP_fget(hp.settings, p)
            IN  r.err = None /\ PyEq(r.val, HPExpected(p))

\* A value the property's validator or its set_process turns down.
HPRejects(p, value) ==
    LET w == HPValidate(HPProperty[p], value)
    IN  \/ w.err = "ValueError"
        \/ w.err = None /\ HPSetProcess(HPProperty[p], value).err = "ValueError"

\* C3: a setter call that raises wrote nothing and left every tracked
\* setting as it was; a value the validator or set_process turns down raises
\* ValueError; a tracked setting changes only in a call that wrote exactly
\* the command carrying the new value.
C3_ValidateFormatSend ==
    [][hp'.last.op = "set" /\ hp'.ops # hp.ops =>
        /\ hp'.last.err # None =>
             hp'.last.events = <<>> /\ hp'.settings = hp.settings
        /\ HPRejects(hp'.last.prop, hp'.last.value) => hp'.last.err = "ValueError"
        /\ hp'.last.err = None =>
             LET d == HPProperty[hp'.last.prop]
             IN  /\ hp'.last.events =
                       <<HPEvent("write", HPCommand(d.fmt, hp'.settings[d.attr]))>>
                 /\ \A a \in HPAttributes \ {d.attr} : hp'.settings[a] = hp.settings[a]
                 /\ hp'.settings[d.attr] = HPSetProcess(d, hp'.last.value).val
      ]_vars

\* C3 witness: zy_range = 0 is turned down after display_a was set to 6.
C3_Witness ==
    /\ hp.last.op = "set"
    /\ hp.last.prop = "zy_range"
    /\ hp.last.value = PyI(0)
    /\ hp.last.err = "ValueError"
    /\ hp.last.events = <<>>
    /\ hp.settings.display_a = PyI(6)

\* The properties made with self_validator=display_validator.
HPGuarded == {p \in HPProperties : HPProperty[p].self_validator}

\* C4: zy_range, dc_bias, zero_open, zero_short and test_level_monitor are
\* turned down with ValueError and nothing written while display_a is 5, 6
\* or 7, and a valid value is accepted while display_a is below 5.
C4_GuardedByDisplayA ==
    hp.last.op = "set" /\ hp.last.prop \in HPGuarded =>
        /\ PyNum(hp.last.before) >= 5 * PyScale =>
             hp.last.err = "ValueError" /\ hp.last.events = <<>>
        /\ ( /\ PyNum(hp.last.before) < 5 * PyScale
             /\ HPValidate(HPProperty[hp.last.prop], hp.last.value).err = None )
           => hp.last.err \in {None, "InvalidSession"}

\* C9: a shutdown that completes wrote 'AB', then cleared, then closed the
\* connection, and nothing else; no call writes after the close.
C9_ShutdownOrder ==
    /\ hp.last.op = "shutdown" /\ hp.last.err = None =>
          /\ hp.last.events = <<HPEvent("write", HPCommand("AB", PyAbsent)),
                               HPEvent("clear", HPNoCommand),
                               HPEvent("close", HPNoCommand)>>
          /\ hp.conn = "closed"
    /\ \A i, j \in 1..Len(hp.last.events) :
          hp.last.events[i].e = "close" /\ i < j => hp.last.events[j].e # "write"
    /\ hp.conn = "closed" /\ hp.last.op # "shutdown" => hp.last.events = <<>>

\* C9 witness: a shutdown after display_a was set.
C9_Witness ==
    /\ hp.last.op = "shutdown"
    /\ Len(hp.last.events) = 3
    /\ hp.lastSet.display_a.t # "absent"

(***************************************************************************)
(* F.W. Bell 5180 gaussmeter: FWBell5180_Adapter                           *)
(* src/pymeasure/instruments/fwbell/fwbell5180_adapter.py                  *)
(***************************************************************************)

\* The command strings the calls of the model are made with, each with the
\* characters it consists of.
FWText ==
    ("*IDN?" :>
        <<"*", "I", "D", "N", "?">>) @@
    (":MEASURE:FLUX?" :>
        <<":", "M", "E", "A", "S", "U", "R", "E", ":", "F", "L", "U", "X", "?">>) @@
    (":UNIT:FLUX?" :>
        <<":", "U", "N", "I", "T", ":", "F", "L", "U", "X", "?">>) @@
    (":UNIT:FLUX:AC:GAUSS" :>
        <<":", "U", "N", "I", "T", ":", "F", "L", "U", "X", ":", "A", "C", ":", "G", "A", "U", "S", "S">>) @@
    (":UNIT:FLUX:AC:TESLA" :>
        <<":", "U", "N", "I", "T", ":", "F", "L", "U", "X", ":", "A", "C", ":", "T", "E", "S", "L", "A">>) @@
    (":UNIT:FLUX:AC:AM" :>
        <<":", "U", "N", "I", "T", ":", "F", "L", "U", "X", ":", "A", "C", ":", "A", "M">>) @@
    (":UNIT:FLUX:DC:GAUSS" :>
        <<":", "U", "N", "I", "T", ":", "F", "L", "U", "X", ":", "D", "C", ":", "G", "A", "U", "S", "S">>) @@
    (":UNIT:FLUX:DC:TESLA" :>
        <<":", "U", "N", "I", "T", ":", "F", "L", "U", "X", ":", "D", "C", ":", "T", "E", "S", "L", "A">>) @@
    (":UNIT:FLUX:DC:AM" :>
        <<":", "U", "N", "I", "T", ":", "F", "L", "U", "X", ":", "D", "C", ":", "A", "M">>) @@
    (":SENS:FLUX:RANG:AUTO" :>
        <<":", "S", "E", "N", "S", ":", "F", "L", "U", "X", ":", "R", "A", "N", "G", ":", "A", "U", "T", "O">>) @@
    (":SENS:FLUX:RANG?" :>
        <<":", "S", "E", "N", "S", ":", "F", "L", "U", "X", ":", "R", "A", "N", "G", "?">>) @@
    (":SENS:FLUX:RANG 0" :>
        <<":", "S", "E", "N", "S", ":", "F", "L", "U", "X", ":", "R", "A", "N", "G", " ", "0">>) @@
    (":SENS:FLUX:RANG 1" :>
        <<":", "S", "E", "N", "S", ":", "F", "L", "U", "X", ":", "R", "A", "N", "G", " ", "1">>) @@
    (":SENS:FLUX:RANG 2" :>
        <<":", "S", "E", "N", "S", ":", "F", "L", "U", "X", ":", "R", "A", "N", "G", " ", "2">>) @@
    ("*CLS" :>
        <<"*", "C", "L", "S">>) @@
    ("*idn?" :>
        <<"*", "i", "d", "n", "?">>) @@
    (":Measure:Flux?" :>
        <<":", "M", "e", "a", "s", "u", "r", "e", ":", "F", "l", "u", "x", "?">>) @@
    (":unit:flux?" :>
        <<":", "u", "n", "i", "t", ":", "f", "l", "u", "x", "?">>) @@
    (":sens:flux:rang?" :>
        <<":", "s", "e", "n", "s", ":", "f", "l", "u", "x", ":", "r", "a", "n", "g", "?">>) @@
    (":sens:flux:rang 1" :>
        <<":", "s", "e", "n", "s", ":", "f", "l", "u", "x", ":", "r", "a", "n", "g", " ", "1">>) @@
    ("*cls" :>
        <<"*", "c", "l", "s">>) @@
    ("*RST" :>
        <<"*", "R", "S", "T">>) @@
    (":SENS:FLUX:RANG 3" :>
        <<":", "S", "E", "N", "S", ":", "F", "L", "U", "X", ":", "R", "A", "N", "G", " ", "3">>) @@
    (":MEASURE:FLUX" :>
        <<":", "M", "E", "A", "S", "U", "R", "E", ":", "F", "L", "U", "X">>) @@
    (":unit:flux:dc:kg" :>
        <<":", "u", "n", "i", "t", ":", "f", "l", "u", "x", ":", "d", "c", ":", "k", "g">>)

\* COMMANDS: command -> the hexadecimal text of the bytes to send.
COMMANDS ==
    (FWText["*IDN?"] :>
        <<"0", "1", "2", "B", "1", "8", "0", "0", "D", "0", "7", "B", "0", "0", "0", "0">>) @@
    (FWText[":MEASURE:FLUX?"] :>
        <<"0", "1", "2", "B", "1", "0", "0", "0", "1", "0", "7", "C", "0", "0", "0", "0">>) @@
    (FWText[":UNIT:FLUX?"] :>
        <<"0", "1", "2", "B", "1", "0", "0", "0", "1", "0", "7", "C", "0", "0", "0", "0">>) @@
    (FWText[":UNIT:FLUX:AC:GAUSS"] :>
        <<"0", "1", "2", "B", "1", "2", "0", "2", "0", "0", "0", "1", "B", "4", "4", "0">>) @@
    (FWText[":UNIT:FLUX:AC:TESLA"] :>
        <<"0", "1", "2", "B", "1", "2", "0", "2", "0", "1", "0", "1", "2", "4", "4", "1">>) @@
    (FWText[":UNIT:FLUX:AC:AM"] :>
        <<"0", "1", "2", "B", "1", "2", "0", "2", "0", "2", "0", "1", "D", "4", "4", "1">>) @@
    (FWText[":UNIT:FLUX:DC:GAUSS"] :>
        <<"0", "1", "2", "B", "1", "2", "0", "2", "0", "0", "0", "0", "7", "4", "8", "1">>) @@
    (FWText[":UNIT:FLUX:DC:TESLA"] :>
        <<"0", "1", "2", "B", "1", "2", "0", "2", "0", "1", "0", "0", "E", "4", "8", "0">>) @@
    (FWText[":UNIT:FLUX:DC:AM"] :>
        <<"0", "1", "2", "B", "1", "2", "0", "2", "0", "2", "0", "0", "1", "4", "8", "0">>) @@
    (FWText[":SENS:FLUX:RANG:AUTO"] :>
        <<"0", "1", "2", "B", "2", "0", "0", "1", "0", "1", "B", "E", "D", "1", "0", "0">>) @@
    (FWText[":SENS:FLUX:RANG?"] :>
        <<"0", "1", "2", "B", "1", "A", "0", "0", "B", "0", "7", "A", "0", "0", "0", "0">>) @@
    (FWText[":SENS:FLUX:RANG 0"] :>
        <<"0", "1", "2", "B", "1", "9", "0", "1", "0", "0", "7", "3", "C", "0", "0", "0">>) @@
    (FWText[":SENS:FLUX:RANG 1"] :>
        <<"0", "1", "2", "B", "1", "9", "0", "1", "0", "1", "B", "3", "0", "1", "0", "0">>) @@
    (FWText[":SENS:FLUX:RANG 2"] :>
        <<"0", "1", "2", "B", "1", "9", "0", "1", "0", "2", "B", "2", "4", "1", "0", "0">>) @@
    (FWText["*CLS"] :>
        <<"0", "1", "2", "B", "3", "7", "0", "2", "0", "0", "0", "1", "B", "8", "4", "B">>)

\* str.upper() on the characters of a command: a lower-case letter becomes
\* its capital, every other character stays.
FWUpperCase ==
    ("a" :> "A") @@ ("b" :> "B") @@ ("c" :> "C") @@ ("d" :> "D") @@
    ("e" :> "E") @@ ("f" :> "F") @@ ("g" :> "G") @@ ("h" :> "H") @@
    ("i" :> "I") @@ ("j" :> "J") @@ ("k" :> "K") @@ ("l" :> "L") @@
    ("m" :> "M") @@ ("n" :> "N") @@ ("o" :> "O") @@ ("p" :> "P") @@
    ("q" :> "Q") @@ ("r" :> "R") @@ ("s" :> "S") @@ ("t" :> "T") @@
    ("u" :> "U") @@ ("v" :> "V") @@ ("w" :> "W") @@ ("x" :> "X") @@
    ("y" :> "Y") @@ ("z" :> "Z")

upper(chars) ==
    [i \in 1..Len(chars) |->
        IF chars[i] \in DOMAIN FWUpperCase THEN FWUpperCase[chars[i]] ELSE chars[i]]

\* QUERIES = [i for i in COMMANDS if '?' in i]
QUERIES == {c \in DOMAIN COMMANDS : \E i \in 1..Len(c) : c[i] = "?"}

\* bytearray.fromhex(text): two hexadecimal digits make one byte.
FWHexDigit ==
    ("0" :> 0) @@ ("1" :> 1) @@ ("2" :> 2) @@ ("3" :> 3) @@ ("4" :> 4) @@
    ("5" :> 5) @@ ("6" :> 6) @@ ("7" :> 7) @@ ("8" :> 8) @@ ("9" :> 9) @@
    ("A" :> 10) @@ ("B" :> 11) @@ ("C" :> 12) @@ ("D" :> 13) @@ ("E" :> 14) @@
    ("F" :> 15)

fromhex(text) ==
    [i \in 1..(Len(text) \div 2) |->
        FWHexDigit[text[2 * i - 1]] * 16 + FWHexDigit[text[2 * i]]]

\* What a call returns: the bytes read (b), a float n * 10^e, an int n, the
\* units text (s), or the identity as the characters decoded (b).
FWNoResult == [s |-> "", n |-> 0, e |-> 0, b |-> <<>>, t |-> "none"]
FWBytes(b) == [FWNoResult EXCEPT !.t = "bytes", !.b = b]
FWFloat(n, e) == [FWNoResult EXCEPT !.t = "float", !.n = n, !.e = e]
FWInt(n) == [FWNoResult EXCEPT !.t = "int", !.n = n]
FWStr(s) == [FWNoResult EXCEPT !.t = "str", !.s = s]
FWChars(b) == [FWNoResult EXCEPT !.t = "str", !.b = b]

FWOk(v) == [err |-> None, v |-> v]
FWErr(e) == [err |-> e, v |-> FWNoResult]

\* out_data[i:j] of Python, on the 1-based sequence: a slice never raises.
FWSlice(out_data, i, j) ==
    SubSeq(out_data, i + 1, IF j < Len(out_data) THEN j ELSE Len(out_data))

\* text.strip('\x00')
FWStrip(s, c) ==
    LET keep == {i \in 1..Len(s) : s[i] # c}
    IN  IF keep = {} THEN <<>>
        ELSE SubSeq(s, CHOOSE i \in keep : \A k \in keep : i <= k,
                       CHOOSE j \in keep : \A k \in keep : k <= j)

\* FWBell5180_Adapter.get_idn.  The replies of the model hold no multi-byte
\* UTF-8 sequence: a byte from 128 up is one that decode() rejects.
get_idn(out_data) ==
    IF Len(out_data) < 4 THEN FWErr("IndexError")
    ELSE LET length == out_data[4]
             response == FWSlice(out_data, 4, length + 4)
         IN  IF \E i \in 1..Len(response) : response[i] >= 128
             THEN FWErr("UnicodeDecodeError")
             ELSE FWOk(FWChars(FWStrip(response, 0)))

\* FWBell5180_Adapter.get_units
get_units(out_data) ==
    IF Len(out_data) < 10 THEN FWErr("IndexError")
    ELSE LET ac_dc == out_data[10] # 0
             mode == out_data[7]
         IN  FWOk(FWStr(CASE  ac_dc /\ mode = 0 -> "AC:GAUSS"
                          []  ac_dc /\ mode = 1 -> "AC:TESLA"
                          []  ac_dc /\ mode \notin {0, 1} -> "AC:AM"
                          [] ~ac_dc /\ mode = 0 -> "DC:GAUSS"
                          [] ~ac_dc /\ mode = 1 -> "DC:TESLA"
                          [] ~ac_dc /\ mode \notin {0, 1} -> "DC:AM"))

\* FWBell5180_Adapter.get_range
get_range(out_data) ==
    IF Len(out_data) < 5 THEN FWErr("IndexError") ELSE FWOk(FWInt(out_data[5]))

\* FWBell5180_Adapter.get_measurement: struct.unpack('>h', ...) reads a signed
\* big-endian 16-bit integer from exactly two bytes.
get_measurement(out_data) ==
    IF Len(out_data) < 3 THEN FWErr("IndexError")
    ELSE IF out_data[3] # 16 THEN FWErr("ValueError")
    ELSE LET two == FWSlice(out_data, 4, 6)
         IN  IF Len(two) # 2 THEN FWErr("struct.error")
             ELSE LET raw == two[1] * 256 + two[2]
                      response == IF raw >= 32768 THEN raw - 65536 ELSE raw
                  IN  IF Len(out_data) < 8 THEN FWErr("IndexError")
                      ELSE LET scale == out_data[8]
                           IN  FWOk(FWFloat(response,
                                   IF scale = 0 THEN -5
                                   ELSE IF scale = 1 THEN -4 ELSE -3))

\* One USB transfer as the device sees it: direction, endpoint, the bytes
\* moved, and whether the transfer succeeded.
FWTransfer(dir, ep, data, ok) == [dir |-> dir, ep |-> ep, data |-> data, ok |-> ok]

\* The outcome of a call: the adapter's connection, the transfers made, the
\* exception raised (None: it returned) and the value returned.
FWCall(connection) ==
    [err |-> None, connection |-> connection, usb |-> <<>>, result |-> FWNoResult]

FWRaise(a, e) == [a EXCEPT !.err = e, !.result = FWNoResult]

\* A write that sends the command a second time when the read fails.
FW_write_retransmit(a, command, dev) ==
    LET c == upper(command)
    IN  IF c \notin DOMAIN COMMANDS THEN FWRaise(a, "NameError")
        ELSE IF a.connection = None THEN FWRaise(a, "AttributeError")
        ELSE LET out == FWTransfer("OUT", 1, fromhex(COMMANDS[c]), dev.out)
                 a1 == [a EXCEPT !.usb = Append(@, out)]
             IN  IF ~dev.out THEN FWRaise(a1, "USBError")
                 ELSE IF ~dev.in
                      THEN [a1 EXCEPT !.usb = @ \o <<FWTransfer("IN", 129, <<>>, FALSE),
                                                     out,
                                                     FWTransfer("IN", 129, dev.data, TRUE)>>,
                                      !.result = FWBytes(dev.data)]
                      ELSE [a1 EXCEPT !.usb = Append(@, FWTransfer("IN", 129, dev.data, TRUE)),
                                      !.result = FWBytes(dev.data)]

\* FWBell5180_Adapter.write(command, read_bytes=128).  dev is what the USB
\* device does with the two transfers: each may fail with usb.core.USBError,
\* and the read delivers dev.data (shorter than read_bytes in the model).
FW_write(a, command, dev) ==
    LET c == upper(command)
    IN  IF c \notin DOMAIN COMMANDS THEN FWRaise(a, "NameError")
        ELSE IF a.connection = None THEN FWRaise(a, "AttributeError")
        ELSE LET out == FWTransfer("OUT", 1, fromhex(COMMANDS[c]), dev.out)
                 a1 == [a EXCEPT !.usb = Append(@, out)]
             IN  IF ~dev.out THEN FWRaise(a1, "USBError")
                 ELSE IF ~dev.in
                      THEN FWRaise([a1 EXCEPT !.usb = Append(@, FWTransfer("IN", 129, <<>>, FALSE))],
                                   "USBError")
                      ELSE [a1 EXCEPT !.usb = Append(@, FWTransfer("IN", 129, dev.data, TRUE)),
                                      !.result = FWBytes(dev.data)]

\* FWBell5180_Adapter.read
FW_read(a) == FWRaise(a, "NotImplementedError")

\* ask's choice of the decoder after a completed exchange.
FWDecode(a, c, w) ==
    LET d == IF c = FWText[":MEASURE:FLUX?"] THEN get_measurement(w.result.b)
             ELSE IF c = FWText[":UNIT:FLUX?"] THEN get_units(w.result.b)
             ELSE IF c = FWText[":SENS:FLUX:RANG?"] THEN get_range(w.result.b)
             ELSE get_idn(w.result.b)
    IN  [w EXCEPT !.err = d.err, !.result = d.v]

\* An ask that admits every command of COMMANDS.
FW_ask_any_command(a, command, dev) ==
    LET c == upper(command)
    IN  IF c \in DOMAIN COMMANDS
        THEN LET w == FW_write(a, c, dev)
             IN  IF w.err # None THEN w ELSE FWDecode(a, c, w)
        ELSE FWRaise(a, "NameError")

\* FWBell5180_Adapter.ask(command, read_bytes=128)
FW_ask(a, command, dev) ==
    LET c == upper(command)
    IN  IF c \in QUERIES
        THEN LET w == FW_write(a, c, dev)
             IN  IF w.err # None THEN w ELSE FWDecode(a, c, w)
        ELSE FWRaise(a, "NameError")

\* FWBell5180_Adapter.shutdown: dispose_resources(self.connection), then
\* self.connection = None; on an adapter already shut down the first fails.
FW_shutdown(a) ==
    IF a.connection = None THEN FWRaise(a, "AttributeError")
    ELSE [a EXCEPT !.connection = None]

\* ---- the FWBell5180_Adapter state machine ----

\* The replies the gaussmeter sends in the model.
FWReplies ==
    {<<1, 43, 16, 4, 255, 56, 0, 1, 0, 1>>,
     <<1, 43, 24, 6, 0, 53, 49, 56, 48, 0>>,
     <<1, 43, 16, 0, 0, 100, 1, 0, 0, 0>>,
     <<1, 43, 16, 2, 1, 0>>,
     <<1, 43, 16, 1, 7>>,
     <<1, 43>>}

\* What the device does with one exchange: it answers, or a transfer fails.
FWDevice ==
    {[out |-> TRUE, in |-> TRUE, data |-> r] : r \in FWReplies} \cup
    {[out |-> TRUE, in |-> FALSE, data |-> <<>>],
     [out |-> FALSE, in |-> FALSE, data |-> <<>>]}

\* The fields of fw:
\*   connection  the USB device handle, "claimed", or None after shutdown
\*   last        the most recent call: the command given, the transfers made,
\*               the exception raised and the value returned
FWObject(a, op, command) ==
    [last |-> [err |-> a.err, op |-> op, usb |-> a.usb, result |-> a.result,
               command |-> command],
     connection |-> a.connection]

FWAbsent == FWObject(FWCall(None), "none", "")

\* FWBell5180_Adapter.__init__: find the device, claim interface 0, then
\* self.write(':SENS:FLUX:RANG?'); an exception leaves no adapter.
FW_init(dev) ==
    FWObject(FW_write(FWCall("claimed"), FWText[":SENS:FLUX:RANG?"], dev),
             "init", ":SENS:FLUX:RANG?")

FWStart == FWCall(fw.connection)

FWDone(op, command, a) == fw' = FWObject(a, op, command) /\ UNCHANGED notFW

FWWrite == \E c \in DOMAIN FWText, dev \in FWDevice :
    FWDone("write", c, FW_write(FWStart, FWText[c], dev))

FWAsk == \E c \in DOMAIN FWText, dev \in FWDevice :
    FWDone("ask", c, FW_ask(FWStart, FWText[c], dev))

FWRead == FWDone("read", "", FW_read(FWStart))

FWShutdown == FWDone("shutdown", "", FW_shutdown(FWStart))

FWNext ==
    \/ FWWrite
    \/ FWAsk
    \/ FWRead
    \/ FWShutdown

\* ---- claims about the FWBell5180_Adapter ----

\* The bytes each accepted command string stands for.
FWBytesOf ==
    ("*IDN?" :> <<1, 43, 24, 0, 208, 123, 0, 0>>) @@
    (":MEASURE:FLUX?" :> <<1, 43, 16, 0, 16, 124, 0, 0>>) @@
    (":UNIT:FLUX?" :> <<1, 43, 16, 0, 16, 124, 0, 0>>) @@
    (":UNIT:FLUX:AC:GAUSS" :> <<1, 43, 18, 2, 0, 1, 180, 64>>) @@
    (":UNIT:FLUX:AC:TESLA" :> <<1, 43, 18, 2, 1, 1, 36, 65>>) @@
    (":UNIT:FLUX:AC:AM" :> <<1, 43, 18, 2, 2, 1, 212, 65>>) @@
    (":UNIT:FLUX:DC:GAUSS" :> <<1, 43, 18, 2, 0, 0, 116, 129>>) @@
    (":UNIT:FLUX:DC:TESLA" :> <<1, 43, 18, 2, 1, 0, 228, 128>>) @@
    (":UNIT:FLUX:DC:AM" :> <<1, 43, 18, 2, 2, 0, 20, 128>>) @@
    (":SENS:FLUX:RANG:AUTO" :> <<1, 43, 32, 1, 1, 190, 209, 0>>) @@
    (":SENS:FLUX:RANG?" :> <<1, 43, 26, 0, 176, 122, 0, 0>>) @@
    (":SENS:FLUX:RANG 0" :> <<1, 43, 25, 1, 0, 115, 192, 0>>) @@
    (":SENS:FLUX:RANG 1" :> <<1, 43, 25, 1, 1, 179, 1, 0>>) @@
    (":SENS:FLUX:RANG 2" :> <<1, 43, 25, 1, 2, 178, 65, 0>>) @@
    ("*CLS" :> <<1, 43, 55, 2, 0, 1, 184, 75>>) @@
    ("*idn?" :> <<1, 43, 24, 0, 208, 123, 0, 0>>) @@
    (":Measure:Flux?" :> <<1, 43, 16, 0, 16, 124, 0, 0>>) @@
    (":unit:flux?" :> <<1, 43, 16, 0, 16, 124, 0, 0>>) @@
    (":sens:flux:rang?" :> <<1, 43, 26, 0, 176, 122, 0, 0>>) @@
    (":sens:flux:rang 1" :> <<1, 43, 25, 1, 1, 179, 1, 0>>) @@
    ("*cls" :> <<1, 43, 55, 2, 0, 1, 184, 75>>)

FWAcceptedByWrite ==
    {"*IDN?", ":MEASURE:FLUX?", ":UNIT:FLUX?", ":UNIT:FLUX:AC:GAUSS",
     ":UNIT:FLUX:AC:TESLA", ":UNIT:FLUX:AC:AM", ":UNIT:FLUX:DC:GAUSS",
     ":UNIT:FLUX:DC:TESLA", ":UNIT:FLUX:DC:AM", ":SENS:FLUX:RANG:AUTO",
     ":SENS:FLUX:RANG?", ":SENS:FLUX:RANG 0", ":SENS:FLUX:RANG 1",
     ":SENS:FLUX:RANG 2", "*CLS", "*idn?", ":Measure:Flux?", ":unit:flux?",
     ":sens:flux:rang?", ":sens:flux:rang 1", "*cls"}

FWAcceptedByAsk ==
    {"*IDN?", ":MEASURE:FLUX?", ":UNIT:FLUX?", ":SENS:FLUX:RANG?", "*idn?",
     ":Measure:Flux?", ":unit:flux?", ":sens:flux:rang?"}

\* The exchange of one accepted command: the command's bytes go out to
\* endpoint 1 once; a read from endpoint 129 follows unless the OUT transfer
\* failed; nothing is sent twice.
FWOneExchange(command, usb) ==
    /\ Len(usb) \in {1, 2}
    /\ usb[1].dir = "OUT" /\ usb[1].ep = 1 /\ usb[1].data = FWBytesOf[command]
    /\ Len(usb) = 1 => ~usb[1].ok
    /\ Len(usb) = 2 => usb[1].ok /\ usb[2].dir = "IN" /\ usb[2].ep = 129

\* C5: on an adapter that was not shut down, write(command) upper-cases the
\* command; for a key of COMMANDS it makes one OUT transfer of the mapped
\* bytes to endpoint 0x01, then one IN read from endpoint 0x81, and returns
\* the bytes read, never sending twice; for any other command it raises
\* NameError and makes no transfer.
C5_WriteOneExchange ==
    fw.last.op = "write" /\ fw.connection = "claimed" =>
        IF fw.last.command \in FWAcceptedByWrite
        THEN /\ FWOneExchange(fw.last.command, fw.last.usb)
             /\ fw.last.err \in {None, "USBError"}
             /\ fw.last.err = None <=> Len(fw.last.usb) = 2 /\ fw.last.usb[2].ok
             /\ fw.last.err = None => fw.last.result = FWBytes(fw.last.usb[2].data)
        ELSE fw.last.err = "NameError" /\ fw.last.usb = <<>>

\* A lower-case command was written and the reply came back.
C5_Witness ==
    /\ fw.last.op = "write"
    /\ fw.last.command = ":sens:flux:rang 1"
    /\ fw.last.err = None
    /\ fw.last.usb = <<FWTransfer("OUT", 1, <<1, 43, 25, 1, 1, 179, 1, 0>>, TRUE),
                       FWTransfer("IN", 129, <<1, 43, 24, 6, 0, 53, 49, 56, 48, 0>>, TRUE)>>
    /\ fw.last.result.b = <<1, 43, 24, 6, 0, 53, 49, 56, 48, 0>>

\* The decoder that belongs to each query.
FWDecoded(command, out_data) ==
    CASE command \in {":MEASURE:FLUX?", ":Measure:Flux?"} -> get_measurement(out_data)
      [] command \in {":UNIT:FLUX?", ":unit:flux?"} -> get_units(out_data)
      [] command \in {":SENS:FLUX:RANG?", ":sens:flux:rang?"} -> get_range(out_data)
      [] command \in {"*IDN?", "*idn?"} -> get_idn(out_data)

\* C6: on an adapter that was not shut down, ask(command) accepts only the
\* commands of QUERIES: any other command, a valid non-query command such as
\* '*CLS' included, raises NameError without a USB transfer; a query makes one
\* write/read exchange and the reply is decoded by the query's own decoder.
C6_AskOnlyQueries ==
    fw.last.op = "ask" /\ fw.connection = "claimed" =>
        IF fw.last.command \in FWAcceptedByAsk
        THEN /\ FWOneExchange(fw.last.command, fw.last.usb)
             /\ IF Len(fw.last.usb) = 2 /\ fw.last.usb[2].ok
                THEN LET d == FWDecoded(fw.last.command, fw.last.usb[2].data)
                     IN  fw.last.err = d.err /\ fw.last.result = d.v
                ELSE fw.last.err = "USBError"
        ELSE fw.last.err = "NameError" /\ fw.last.usb = <<>>

\* A measurement was asked for and decoded: -200 * 10^-4.
C6_Witness ==
    /\ fw.last.op = "ask"
    /\ fw.last.command = ":Measure:Flux?"
    /\ Len(fw.last.usb) = 2
    /\ fw.last.usb[1].data = <<1, 43, 16, 0, 16, 124, 0, 0>>
    /\ fw.last.err = None
    /\ fw.last.result = FWFloat(-200, -4)

(***************************************************************************)
(* Omega CS8DPT: OmegaAdapter (Modbus through minimalmodbus)               *)
(* src/pymeasure/instruments/omega/adapters.py                             *)
(***************************************************************************)

\* The strings the calls of the model are made with, each with the
\* characters it consists of.
OmegaText ==
    ("CONTROL_SETPOINT" :>
        <<"C", "O", "N", "T", "R", "O", "L", "_", "S", "E", "T", "P", "O", "I",
          "N", "T">>) @@
    ("RUN_MODE" :>
        <<"R", "U", "N", "_", "M", "O", "D", "E">>) @@
    ("FACTORY_RESET" :>
        <<"F", "A", "C", "T", "O", "R", "Y", "_", "R", "E", "S", "E", "T">>) @@
    ("CURRENT_PROFILE" :>
        <<"C", "U", "R", "R", "E", "N", "T", "_", "P", "R", "O", "F", "I", "L",
          "E">>) @@
    ("ALARM_STATE" :>
        <<"A", "L", "A", "R", "M", "_", "S", "T", "A", "T", "E">>) @@
    ("BOOT_LOADER_VERSION" :>
        <<"B", "O", "O", "T", "_", "L", "O", "A", "D", "E", "R", "_", "V", "E",
          "R", "S", "I", "O", "N">>) @@
    ("CURRENT_INPUT_VALUE" :>
        <<"C", "U", "R", "R", "E", "N", "T", "_", "I", "N", "P", "U", "T", "_",
          "V", "A", "L", "U", "E">>) @@
    ("ABSOLUTE_ALARM_1_HIGH" :>
        <<"A", "B", "S", "O", "L", "U", "T", "E", "_", "A", "L", "A", "R", "M",
          "_", "1", "_", "H", "I", "G", "H">>) @@
    ("ALARM_1_CONTACT_CLOSURE_TYPE" :>
        <<"A", "L", "A", "R", "M", "_", "1", "_", "C", "O", "N", "T", "A", "C",
          "T", "_", "C", "L", "O", "S", "U", "R", "E", "_", "T", "Y", "P", "E">>) @@
    ("LOOP_BREAK_TIME" :>
        <<"L", "O", "O", "P", "_", "B", "R", "E", "A", "K", "_", "T", "I", "M",
          "E">>) @@
    ("DISPLAY_ALARM_CONTROL" :>
        <<"D", "I", "S", "P", "L", "A", "Y", "_", "A", "L", "A", "R", "M", "_",
          "C", "O", "N", "T", "R", "O", "L">>) @@
    ("REMOTE_SENSOR_VALUE" :>
        <<"R", "E", "M", "O", "T", "E", "_", "S", "E", "N", "S", "O", "R", "_",
          "V", "A", "L", "U", "E">>) @@
    ("CONTROL_SETPOINT:25" :>
        <<"C", "O", "N", "T", "R", "O", "L", "_", "S", "E", "T", "P", "O", "I",
          "N", "T", ":", "2", "5">>) @@
    ("CONTROL_SETPOINT:2.5" :>
        <<"C", "O", "N", "T", "R", "O", "L", "_", "S", "E", "T", "P", "O", "I",
          "N", "T", ":", "2", ".", "5">>) @@
    ("CONTROL_SETPOINT:-1.5" :>
        <<"C", "O", "N", "T", "R", "O", "L", "_", "S", "E", "T", "P", "O", "I",
          "N", "T", ":", "-", "1", ".", "5">>) @@
    ("CONTROL_SETPOINT:abc" :>
        <<"C", "O", "N", "T", "R", "O", "L", "_", "S", "E", "T", "P", "O", "I",
          "N", "T", ":", "a", "b", "c">>) @@
    ("CONTROL_SETPOINT:" :>
        <<"C", "O", "N", "T", "R", "O", "L", "_", "S", "E", "T", "P", "O", "I",
          "N", "T", ":">>) @@
    ("CONTROL_SETPOINT:1:2" :>
        <<"C", "O", "N", "T", "R", "O", "L", "_", "S", "E", "T", "P", "O", "I",
          "N", "T", ":", "1", ":", "2">>) @@
    ("RUN_MODE:1" :>
        <<"R", "U", "N", "_", "M", "O", "D", "E", ":", "1">>) @@
    ("RUN_MODE:6" :>
        <<"R", "U", "N", "_", "M", "O", "D", "E", ":", "6">>) @@
    ("RUN_MODE:2.5" :>
        <<"R", "U", "N", "_", "M", "O", "D", "E", ":", "2", ".", "5">>) @@
    ("FACTORY_RESET:1" :>
        <<"F", "A", "C", "T", "O", "R", "Y", "_", "R", "E", "S", "E", "T", ":",
          "1">>) @@
    ("CURRENT_PROFILE:3" :>
        <<"C", "U", "R", "R", "E", "N", "T", "_", "P", "R", "O", "F", "I", "L",
          "E", ":", "3">>) @@
    ("ALARM_STATE:1" :>
        <<"A", "L", "A", "R", "M", "_", "S", "T", "A", "T", "E", ":", "1">>) @@
    ("BOOT_LOADER_VERSION:1" :>
        <<"B", "O", "O", "T", "_", "L", "O", "A", "D", "E", "R", "_", "V", "E",
          "R", "S", "I", "O", "N", ":", "1">>) @@
    ("CURRENT_INPUT_VALUE:1" :>
        <<"C", "U", "R", "R", "E", "N", "T", "_", "I", "N", "P", "U", "T", "_",
          "V", "A", "L", "U", "E", ":", "1">>) @@
    ("ABSOLUTE_ALARM_1_HIGH:1" :>
        <<"A", "B", "S", "O", "L", "U", "T", "E", "_", "A", "L", "A", "R", "M",
          "_", "1", "_", "H", "I", "G", "H", ":", "1">>) @@
    ("ALARM_1_CONTACT_CLOSURE_TYPE:1" :>
        <<"A", "L", "A", "R", "M", "_", "1", "_", "C", "O", "N", "T", "A", "C",
          "T", "_", "C", "L", "O", "S", "U", "R", "E", "_", "T", "Y", "P", "E",
          ":", "1">>) @@
    ("LOOP_BREAK_TIME:1" :>
        <<"L", "O", "O", "P", "_", "B", "R", "E", "A", "K", "_", "T", "I", "M",
          "E", ":", "1">>) @@
    ("DISPLAY_ALARM_CONTROL:1" :>
        <<"D", "I", "S", "P", "L", "A", "Y", "_", "A", "L", "A", "R", "M", "_",
          "C", "O", "N", "T", "R", "O", "L", ":", "1">>) @@
    ("REMOTE_SENSOR_VALUE:1" :>
        <<"R", "E", "M", "O", "T", "E", "_", "S", "E", "N", "S", "O", "R", "_",
          "V", "A", "L", "U", "E", ":", "1">>) @@
    ("NO_SUCH_COMMAND:1" :>
        <<"N", "O", "_", "S", "U", "C", "H", "_", "C", "O", "M", "M", "A", "N",
          "D", ":", "1">>) @@
    ("run_mode:1" :>
        <<"r", "u", "n", "_", "m", "o", "d", "e", ":", "1">>) @@
    (":1" :>
        <<":", "1">>) @@
    ("" :>
        <<>>) @@
    ("NO_SUCH_COMMAND" :>
        <<"N", "O", "_", "S", "U", "C", "H", "_", "C", "O", "M", "M", "A", "N",
          "D">>) @@
    ("run_mode" :>
        <<"r", "u", "n", "_", "m", "o", "d", "e">>)

\* OMEGA_COMMANDS (omega_registers.py), of whose 347 commands the model keeps
\* at least one for every pair of read_write and data_type that occurs.
OMEGA_COMMANDS ==
    (OmegaText["CONTROL_SETPOINT"] :>
        [register |-> 624, read_write |-> <<"R", "W">>, data_type |-> "F"]) @@
    (OmegaText["RUN_MODE"] :>
        [register |-> 576, read_write |-> <<"R", "W">>, data_type |-> "R"]) @@
    (OmegaText["FACTORY_RESET"] :>
        [register |-> 577, read_write |-> <<"W">>, data_type |-> "R"]) @@
    (OmegaText["CURRENT_PROFILE"] :>
        [register |-> 610, read_write |-> <<"R", "W">>, data_type |-> "R"]) @@
    (OmegaText["ALARM_STATE"] :>
        [register |-> 1312, read_write |-> <<"R">>, data_type |-> "R"]) @@
    (OmegaText["BOOT_LOADER_VERSION"] :>
        [register |-> 518, read_write |-> <<"R">>, data_type |-> "L"]) @@
    (OmegaText["CURRENT_INPUT_VALUE"] :>
        [register |-> 640, read_write |-> <<"R">>, data_type |-> "F"]) @@
    (OmegaText["ABSOLUTE_ALARM_1_HIGH"] :>
        [register |-> 1290, read_write |-> <<"N", "V">>, data_type |-> "F"]) @@
    (OmegaText["ALARM_1_CONTACT_CLOSURE_TYPE"] :>
        [register |-> 1286, read_write |-> <<"N", "V">>, data_type |-> "R"]) @@
    (OmegaText["LOOP_BREAK_TIME"] :>
        [register |-> 712, read_write |-> <<"N", "V">>, data_type |-> "L"]) @@
    (OmegaText["DISPLAY_ALARM_CONTROL"] :>
        [register |-> 589, read_write |-> <<>>, data_type |-> "R"]) @@
    (OmegaText["REMOTE_SENSOR_VALUE"] :>
        [register |-> 530, read_write |-> <<>>, data_type |-> "F"])

\* str.split(sep): the fields between the separators.
RECURSIVE split(_, _)
split(chars, sep) ==
    IF \A i \in 1..Len(chars) : chars[i] # sep THEN <<chars>>
    ELSE LET k == CHOOSE i \in 1..Len(chars) :
                      chars[i] = sep /\ \A j \in 1..(i - 1) : chars[j] # sep
         IN  <<SubSeq(chars, 1, k - 1)>> \o split(SubSeq(chars, k + 1, Len(chars)), sep)

\* The number a string of decimal digits writes.
RECURSIVE OmegaDigits(_)
OmegaDigits(chars) ==
    IF chars = <<>> THEN 0
    ELSE OmegaDigits(SubSeq(chars, 1, Len(chars) - 1)) * 10 + PyDigit[chars[Len(chars)]]

OmegaAllDigits(chars) == \A i \in 1..Len(chars) : chars[i] \in DOMAIN PyDigit

OmegaUnsigned(chars) ==
    IF chars # <<>> /\ chars[1] \in {"-", "+"} THEN Tail(chars) ELSE chars

OmegaSign(chars) == IF chars # <<>> /\ chars[1] = "-" THEN -1 ELSE 1

\* int(value) of a str: an optional sign and decimal digits, else ValueError.
OmegaInt(chars) ==
    LET body == OmegaUnsigned(chars)
    IN  IF body # <<>> /\ OmegaAllDigits(body)
        THEN PyOk(PyI(OmegaSign(chars) * OmegaDigits(body)))
        ELSE PyErr("ValueError")

\* float(value) of a str: an optional sign, digits, and at most one point
\* (the inputs of the model carry no exponent, blank or name such as "nan",
\* and no more decimals than PyScale holds); else ValueError.
OmegaFloat(chars) ==
    LET parts == split(OmegaUnsigned(chars), ".")
        whole == parts[1]
        frac == IF Len(parts) = 2 THEN parts[2] ELSE <<>>
    IN  IF /\ Len(parts) \in {1, 2}
           /\ OmegaAllDigits(whole) /\ OmegaAllDigits(frac)
           /\ Len(whole) + Len(frac) > 0
           /\ 10 ^ Len(frac) <= PyScale
        THEN PyOk(PyF(OmegaSign(chars) *
                      (OmegaDigits(whole) * PyScale
                       + OmegaDigits(frac) * (PyScale \div (10 ^ Len(frac))))))
        ELSE PyErr("ValueError")

\* (mode in read_write) for two str: mode occurs in read_write.
OmegaContains(mode, text) ==
    \E i \in 1..(Len(text) - Len(mode) + 1) : SubSeq(text, i, i + Len(mode) - 1) = mode

OmegaNoRegister == [register |-> 0, read_write |-> <<>>, data_type |-> ""]

\* A valid() that does not look at the mode.
valid_any_mode(command, mode) ==
    IF command \in DOMAIN OMEGA_COMMANDS
    THEN [err |-> None, register |-> OMEGA_COMMANDS[command]]
    ELSE [err |-> "NameError", register |-> OmegaNoRegister]

\* OmegaAdapter.valid(command, mode)
valid(command, mode) ==
    IF command \in DOMAIN OMEGA_COMMANDS
    THEN IF OmegaContains(mode, OMEGA_COMMANDS[command].read_write)
         THEN [err |-> None, register |-> OMEGA_COMMANDS[command]]
         ELSE [err |-> "ValueError", register |-> OmegaNoRegister]
    ELSE [err |-> "NameError", register |-> OmegaNoRegister]

\* One Modbus transfer: the minimalmodbus function called, the register, and
\* the value written or read.
OmegaTransfer(fn, register, value) == [value |-> value, register |-> register, fn |-> fn]

\* The outcome of a call: the controller's registers, the transfers made, the
\* exception raised (None: it returned) and the value returned.
OmegaCall(registers) ==
    [err |-> None, result |-> PyAbsent, registers |-> registers, bus |-> <<>>]

OmegaRaise(a, e) == [a EXCEPT !.err = e]

\* self.connection.write_float / write_long / write_register
OmegaBusWrite(a, fn, register, value) ==
    [a EXCEPT !.bus = Append(@, OmegaTransfer(fn, register, value)),
              !.registers[register] = value]

\* self.connection.read_float / read_long / read_register
OmegaBusRead(a, fn, register) ==
    [a EXCEPT !.bus = Append(@, OmegaTransfer(fn, register, a.registers[register])),
              !.result = a.registers[register]]

\* OmegaAdapter.write(command_value)
Omega_write(a, command_value) ==
    LET fields == split(command_value, ":")
    IN  IF Len(fields) < 2 THEN OmegaRaise(a, "IndexError")
        ELSE LET command == fields[1]
                 value == fields[2]
                 v == valid(command, <<"W">>)
                 register == v.register
                 number == IF register.data_type = "F" THEN OmegaFloat(value)
                           ELSE OmegaInt(value)
             IN  IF v.err # None THEN OmegaRaise(a, v.err)
                 ELSE IF register.data_type \notin {"F", "L", "R"} THEN a
                 ELSE IF number.err # None THEN OmegaRaise(a, number.err)
                 ELSE IF register.data_type = "F"
                      THEN OmegaBusWrite(a, "write_float", register.register, number.val)
                 ELSE IF register.data_type = "L"
                      THEN OmegaBusWrite(a, "write_long", register.register, number.val)
                 ELSE OmegaBusWrite(a, "write_register", register.register, number.val)

\* OmegaAdapter.ask(command); the raise after the three cases formats two
\* %s with one argument, a TypeError.
Omega_ask(a, command) ==
    LET v == valid(command, <<"R">>)
        register == v.register
    IN  IF v.err # None THEN OmegaRaise(a, v.err)
        ELSE IF register.data_type = "F"
             THEN OmegaBusRead(a, "read_float", register.register)
        ELSE IF register.data_type = "L"
             THEN OmegaBusRead(a, "read_long", register.register)
        ELSE IF register.data_type = "R"
             THEN OmegaBusRead(a, "read_register", register.register)
        ELSE OmegaRaise(a, "TypeError")

\* ---- the OmegaAdapter state machine ----

\* The strings write() and ask() are called with.
OmegaWriteInputs ==
    {"CONTROL_SETPOINT:25", "CONTROL_SETPOINT:2.5", "CONTROL_SETPOINT:-1.5",
     "CONTROL_SETPOINT:abc", "CONTROL_SETPOINT:", "CONTROL_SETPOINT:1:2",
     "RUN_MODE:1", "RUN_MODE:6", "RUN_MODE:2.5", "FACTORY_RESET:1",
     "CURRENT_PROFILE:3", "ALARM_STATE:1", "BOOT_LOADER_VERSION:1",
     "CURRENT_INPUT_VALUE:1", "ABSOLUTE_ALARM_1_HIGH:1",
     "ALARM_1_CONTACT_CLOSURE_TYPE:1", "LOOP_BREAK_TIME:1",
     "DISPLAY_ALARM_CONTROL:1", "REMOTE_SENSOR_VALUE:1",
     "NO_SUCH_COMMAND:1", "run_mode:1", ":1", "RUN_MODE", ""}

OmegaAskInputs ==
    {"CONTROL_SETPOINT", "RUN_MODE", "FACTORY_RESET", "CURRENT_PROFILE",
     "ALARM_STATE", "BOOT_LOADER_VERSION", "CURRENT_INPUT_VALUE",
     "ABSOLUTE_ALARM_1_HIGH", "ALARM_1_CONTACT_CLOSURE_TYPE",
     "LOOP_BREAK_TIME", "DISPLAY_ALARM_CONTROL", "REMOTE_SENSOR_VALUE",
     "NO_SUCH_COMMAND", "run_mode", "RUN_MODE:1", ""}

\* The fields of om:
\*   registers  the controller: register number -> the value it holds
\*   last       the most recent call: the string given, the transfers made,
\*              the exception raised and the value returned
OmegaObject(a, op, arg) ==
    [last |-> [arg |-> arg, err |-> a.err, op |-> op, result |-> a.result,
               bus |-> a.bus],
     registers |-> a.registers]

\* OmegaAdapter.__init__: minimalmodbus.Instrument(port, address); nothing is
\* transferred.  The controller's registers hold zero.
Omega_init ==
    OmegaObject(
        OmegaCall([r \in {OMEGA_COMMANDS[c].register : c \in DOMAIN OMEGA_COMMANDS} |->
                      IF \E c \in DOMAIN OMEGA_COMMANDS :
                             OMEGA_COMMANDS[c].register = r /\ OMEGA_COMMANDS[c].data_type = "F"
                      THEN PyF(0) ELSE PyI(0)]),
        "init", "")

OmegaStart == OmegaCall(om.registers)

OmegaDone(op, arg, a) == om' = OmegaObject(a, op, arg) /\ UNCHANGED notOmega

OmegaWrite == \E s \in OmegaWriteInputs :
    OmegaDone("write", s, Omega_write(OmegaStart, OmegaText[s]))

OmegaAsk == \E s \in OmegaAskInputs :
    OmegaDone("ask", s, Omega_ask(OmegaStart, OmegaText[s]))

OmegaNext ==
    \/ OmegaWrite
    \/ OmegaAsk

\* ---- claims about the OmegaAdapter ----

\* For the commands of the model: the letters of the read_write field, the
\* register, and for each "command:value" string the command it names.
OmegaModes ==
    ("CONTROL_SETPOINT" :> {"R", "W"}) @@
    ("RUN_MODE" :> {"R", "W"}) @@
    ("FACTORY_RESET" :> {"W"}) @@
    ("CURRENT_PROFILE" :> {"R", "W"}) @@
    ("ALARM_STATE" :> {"R"}) @@
    ("BOOT_LOADER_VERSION" :> {"R"}) @@
    ("CURRENT_INPUT_VALUE" :> {"R"}) @@
    ("ABSOLUTE_ALARM_1_HIGH" :> {"N", "V"}) @@
    ("ALARM_1_CONTACT_CLOSURE_TYPE" :> {"N", "V"}) @@
    ("LOOP_BREAK_TIME" :> {"N", "V"}) @@
    ("DISPLAY_ALARM_CONTROL" :> {}) @@
    ("REMOTE_SENSOR_VALUE" :> {})

OmegaRegisterOf ==
    ("CONTROL_SETPOINT" :> 624) @@
    ("RUN_MODE" :> 576) @@
    ("FACTORY_RESET" :> 577) @@
    ("CURRENT_PROFILE" :> 610) @@
    ("ALARM_STATE" :> 1312) @@
    ("BOOT_LOADER_VERSION" :> 518) @@
    ("CURRENT_INPUT_VALUE" :> 640) @@
    ("ABSOLUTE_ALARM_1_HIGH" :> 1290) @@
    ("ALARM_1_CONTACT_CLOSURE_TYPE" :> 1286) @@
    ("LOOP_BREAK_TIME" :> 712) @@
    ("DISPLAY_ALARM_CONTROL" :> 589) @@
    ("REMOTE_SENSOR_VALUE" :> 530)

OmegaCommandOf ==
    ("CONTROL_SETPOINT:25" :> "CONTROL_SETPOINT") @@
    ("CONTROL_SETPOINT:2.5" :> "CONTROL_SETPOINT") @@
    ("CONTROL_SETPOINT:-1.5" :> "CONTROL_SETPOINT") @@
    ("CONTROL_SETPOINT:abc" :> "CONTROL_SETPOINT") @@
    ("CONTROL_SETPOINT:" :> "CONTROL_SETPOINT") @@
    ("CONTROL_SETPOINT:1:2" :> "CONTROL_SETPOINT") @@
    ("RUN_MODE:1" :> "RUN_MODE") @@
    ("RUN_MODE:6" :> "RUN_MODE") @@
    ("RUN_MODE:2.5" :> "RUN_MODE") @@
    ("FACTORY_RESET:1" :> "FACTORY_RESET") @@
    ("CURRENT_PROFILE:3" :> "CURRENT_PROFILE") @@
    ("ALARM_STATE:1" :> "ALARM_STATE") @@
    ("BOOT_LOADER_VERSION:1" :> "BOOT_LOADER_VERSION") @@
    ("CURRENT_INPUT_VALUE:1" :> "CURRENT_INPUT_VALUE") @@
    ("ABSOLUTE_ALARM_1_HIGH:1" :> "ABSOLUTE_ALARM_1_HIGH") @@
    ("ALARM_1_CONTACT_CLOSURE_TYPE:1" :> "ALARM_1_CONTACT_CLOSURE_TYPE") @@
    ("LOOP_BREAK_TIME:1" :> "LOOP_BREAK_TIME") @@
    ("DISPLAY_ALARM_CONTROL:1" :> "DISPLAY_ALARM_CONTROL") @@
    ("REMOTE_SENSOR_VALUE:1" :> "REMOTE_SENSOR_VALUE") @@
    ("NO_SUCH_COMMAND:1" :> "NO_SUCH_COMMAND") @@
    ("run_mode:1" :> "run_mode") @@
    (":1" :> "")

OmegaWriteFunctions == {"write_float", "write_long", "write_register"}
OmegaReadFunctions == {"read_float", "read_long", "read_register"}

\* The verdict on a command and a mode before the bus is touched.
OmegaVerdict(command, mode) ==
    IF command \notin DOMAIN OmegaModes THEN "NameError"
    ELSE IF mode \notin OmegaModes[command] THEN "ValueError"
    ELSE None

\* C7: OmegaAdapter validates command and mode before it touches the bus.
\* write("command:value") makes a Modbus write, and only one, only for a
\* command of OMEGA_COMMANDS whose read_write contains 'W'; ask(command) makes
\* a Modbus read, and only one, only for a command whose read_write contains
\* 'R'; an unknown command raises NameError and an unsupported mode raises
\* ValueError, and then nothing is transferred.  A string without ':' never
\* gets as far as the validation: write() raises IndexError.
C7_ValidatedBeforeBus ==
    /\ om.last.op = "write" /\ om.last.arg \in DOMAIN OmegaCommandOf =>
          LET command == OmegaCommandOf[om.last.arg]
              verdict == OmegaVerdict(command, "W")
          IN  IF verdict # None
              THEN om.last.err = verdict /\ om.last.bus = <<>>
              ELSE /\ om.last.err \in {None, "ValueError"}
                   /\ om.last.err = None <=> Len(om.last.bus) = 1
                   /\ om.last.err # None => om.last.bus = <<>>
                   /\ om.last.bus # <<>> =>
                         /\ om.last.bus[1].fn \in OmegaWriteFunctions
                         /\ om.last.bus[1].register = OmegaRegisterOf[command]
    /\ om.last.op = "write" /\ om.last.arg \notin DOMAIN OmegaCommandOf =>
          om.last.err = "IndexError" /\ om.last.bus = <<>>
    /\ om.last.op = "ask" =>
          LET verdict == OmegaVerdict(om.last.arg, "R")
          IN  IF verdict # None
              THEN om.last.err = verdict /\ om.last.bus = <<>>
              ELSE /\ om.last.err = None
                   /\ Len(om.last.bus) = 1
                   /\ om.last.bus[1].fn \in OmegaReadFunctions
                   /\ om.last.bus[1].register = OmegaRegisterOf[om.last.arg]
                   /\ om.last.result = om.last.bus[1].value

\* RUN_MODE was set to 6 by an earlier call, and the last call wrote the
\* setpoint 2.5 to the float register 624.
C7_Witness ==
    /\ om.last.op = "write"
    /\ om.last.arg = "CONTROL_SETPOINT:2.5"
    /\ om.last.err = None
    /\ om.last.bus = <<OmegaTransfer("write_float", 624, PyF(25000))>>
    /\ om.registers[576] = PyI(6)

(***************************************************************************)
(* Keysight DSO1052B oscilloscope: Channel                                 *)
(* src/pymeasure/instruments/keysight/keysightDSO1052B.py                  *)
(***************************************************************************)

\* The controls of Channel that setup() assigns: the set command, whether
\* strict_discrete_set validates, the valid values (the keys, for a dict),
\* and with map_values the value each key is mapped to.
\* BOOLS = {True: 1, False: 0}
BOOLS == [keys |-> <<PyB(TRUE), PyB(FALSE)>>, mapped |-> <<PyI(1), PyI(0)>>]

KSControl ==
    [scale |->
        [values |-> <<>>, mapped |-> <<>>,
         set_command |-> "SCALe %f", validated |-> FALSE],
     bwlimit |->
        [values |-> BOOLS.keys, mapped |-> BOOLS.mapped,
         set_command |-> "BWLimit %d", validated |-> TRUE],
     coupling |->
        [values |-> <<PyS("ac"), PyS("dc"), PyS("gnd")>>, mapped |-> <<PyS("AC"), PyS("DC"), PyS("GND")>>,
         set_command |-> "COUPling %s",
         validated |-> TRUE],
     display |->
        [values |-> BOOLS.keys, mapped |-> BOOLS.mapped,
         set_command |-> "DISPlay %d", validated |-> TRUE],
     invert |->
        [values |-> BOOLS.keys, mapped |-> BOOLS.mapped,
         set_command |-> "INVert %d", validated |-> TRUE],
     offset |->
        [values |-> <<>>, mapped |-> <<>>,
         set_command |-> "OFFSet %f", validated |-> FALSE],
     probe_attenuation |->
        [values |-> <<PyF(10), PyF(100), PyF(1000), PyI(1), PyI(10), PyI(100),
                      PyI(1000)>>, mapped |-> <<>>,
         set_command |-> "PROBe %fX",
         validated |-> TRUE]]

\* A command as it is sent: the channel it is addressed to, the set command
\* and the value put in its place holder.
KSCommand(number, set_command, value) ==
    [arg |-> value, set_command |-> set_command, channel |-> number]

\* The outcome of a call: the commands sent and the exception raised.
KSCall == [sent |-> <<>>, err |-> None]

\* set_command % value: %d takes a number and writes it as an integer, %f
\* takes a number and writes it as a float, %s takes anything; a str given
\* to %d or %f raises TypeError.
KSFormat(set_command, value) ==
    IF set_command \in {"BWLimit %d", "DISPlay %d", "INVert %d"}
    THEN IF PyIsNum(value) THEN PyInt(value) ELSE PyErr("TypeError")
    ELSE IF set_command \in {"OFFSet %f", "PROBe %fX", "SCALe %f"}
    THEN IF PyIsNum(value) THEN PyFloat(value) ELSE PyErr("TypeError")
    ELSE PyOk(value)

\* Channel.write(command): self.instrument.write(":channel%d:%s" % (number, command))
Channel_write(st, number, set_command, value) ==
    [st EXCEPT !.sent = Append(@, KSCommand(number, set_command, value))]

\* The setter Instrument.control builds: validate, map the value, format the
\* set command, write it.
Channel_fset(st, number, name, value) ==
    LET d == KSControl[name]
        checked == IF d.validated THEN strict_discrete_set_py(value, d.values)
                   ELSE PyOk(value)
        mapped == IF checked.err = None /\ d.mapped # <<>>
                  THEN PyOk(d.mapped[CHOOSE i \in 1..Len(d.values) :
                                        /\ PyEq(value, d.values[i])
                                        /\ \A j \in 1..(i - 1) : ~PyEq(value, d.values[j])])
                  ELSE checked
        text == IF mapped.err = None THEN KSFormat(d.set_command, mapped.val) ELSE mapped
    IN  IF text.err # None THEN [st EXCEPT !.err = text.err]
        ELSE Channel_write(st, number, d.set_command, text.val)

\* One statement of setup(): if <value> is not None: self.<name> = <value>;
\* a statement after an exception is not reached.
KSAssign(st, number, name, value) ==
    IF st.err # None \/ value = PyNone THEN st
    ELSE Channel_fset(st, number, name, value)

\* A setup that takes every false value (False, 0) for an unspecified one.
Channel_setup_if_truthy(st, number, args) ==
    LET Given(v) == IF PyIsNum(v) /\ PyNum(v) = 0 THEN PyNone ELSE v
        s1 == KSAssign(st, number, "probe_attenuation", Given(args.probe_attenuation))
        s2 == KSAssign(s1, number, "bwlimit", Given(args.bwlimit))
        s3 == KSAssign(s2, number, "coupling", Given(args.coupling))
        s4 == KSAssign(s3, number, "display", Given(args.display))
        s5 == KSAssign(s4, number, "invert", Given(args.invert))
        s6 == KSAssign(s5, number, "offset", Given(args.offset))
    IN  KSAssign(s6, number, "scale", Given(args.scale))

\* Channel.setup(bwlimit=None, coupling=None, display=None, invert=None,
\*               offset=None, probe_attenuation=None, scale=None)
Channel_setup(st, number, args) ==
    LET s1 == KSAssign(st, number, "probe_attenuation", args.probe_attenuation)
        s2 == KSAssign(s1, number, "bwlimit", args.bwlimit)
        s3 == KSAssign(s2, number, "coupling", args.coupling)
        s4 == KSAssign(s3, number, "display", args.display)
        s5 == KSAssign(s4, number, "invert", args.invert)
        s6 == KSAssign(s5, number, "offset", args.offset)
    IN  KSAssign(s6, number, "scale", args.scale)

\* ---- the Channel state machine ----

\* The channels of the oscilloscope.
KSChannels == {1, 2}

\* The arguments setup() is called with: None, values the control accepts
\* (False and 0 among them) and values it refuses.
KSSetupArgs ==
    [scale             : {PyNone, PyI(2)},
     bwlimit           : {PyNone, PyB(TRUE), PyS("yes")},
     coupling          : {PyNone, PyS("dc"), PyS("DC")},
     display           : {PyNone, PyB(FALSE)},
     invert            : {PyNone, PyB(TRUE)},
     offset            : {PyNone, PyI(0), PyF(5000), PyS("a")},
     probe_attenuation : {PyNone, PyI(10), PyI(5)}]

KSNoArgs ==
    [scale |-> PyNone, bwlimit |-> PyNone, coupling |-> PyNone, display |-> PyNone,
     invert |-> PyNone, offset |-> PyNone, probe_attenuation |-> PyNone]

\* The fields of ks.last, the most recent call on a channel: the channel's
\* number, the arguments given, the commands sent, the exception raised.
KSObject(st, op, number, args) ==
    [last |-> [sent |-> st.sent, err |-> st.err, op |-> op, channel |-> number,
               args |-> args]]

\* Channel.__init__(instrument, number): nothing is sent.
Channel_init == KSObject(KSCall, "init", 0, KSNoArgs)

KSDone(op, number, args, st) == ks' = KSObject(st, op, number, args) /\ UNCHANGED notKS

KSSetup == \E number \in KSChannels, args \in KSSetupArgs :
    KSDone("setup", number, args, Channel_setup(KSCall, number, args))

\* channel.<name> = value
KSSet == \E number \in KSChannels, name \in DOMAIN KSControl :
         \E value \in {args[name] : args \in KSSetupArgs} :
    KSDone("set", number, [KSNoArgs EXCEPT ![name] = value],
           Channel_fset(KSCall, number, name, value))

KSNext ==
    \/ KSSetup
    \/ KSSet

\* ---- claims about Channel.setup ----

\* The settings in the order setup() assigns them, each with its set command.
KSOrder ==
    <<"probe_attenuation", "bwlimit", "coupling", "display", "invert", "offset",
      "scale">>

KSSetCommandOf ==
    [scale |-> "SCALe %f", bwlimit |-> "BWLimit %d",
     coupling |-> "COUPling %s", display |-> "DISPlay %d", invert |-> "INVert %d",
     offset |-> "OFFSet %f", probe_attenuation |-> "PROBe %fX"]

\* The set commands of the settings whose argument is not None, in order.
KSExpected(args) ==
    LET Given(name) == args[name] # PyNone
        given == SelectSeq(KSOrder, Given)
    IN  [i \in 1..Len(given) |-> KSSetCommandOf[given[i]]]

\* C10: Channel.setup() sends a set command for exactly the settings whose
\* argument is not None, to its own channel, in the order probe_attenuation,
\* bwlimit, coupling, display, invert, offset, scale, and nothing for any
\* other setting; with no argument it sends nothing.  A value that a setting
\* refuses ends the call with an exception after the commands before it.
C10_SetupSendsExactlyGiven ==
    ks.last.op = "setup" =>
        LET expected == KSExpected(ks.last.args)
            sent == [i \in 1..Len(ks.last.sent) |-> ks.last.sent[i].set_command]
        IN  /\ \A i \in 1..Len(ks.last.sent) : ks.last.sent[i].channel = ks.last.channel
            /\ ks.last.err = None => sent = expected
            /\ ks.last.err # None =>
                  Len(sent) < Len(expected) /\ sent = SubSeq(expected, 1, Len(sent))
            /\ ks.last.args = KSNoArgs => ks.last.sent = <<>> /\ ks.last.err = None

\* setup(coupling="dc", display=False, offset=0, probe_attenuation=10) on
\* channel 2 sent four commands, PROBe first.
C10_Witness ==
    /\ ks.last.op = "setup"
    /\ ks.last.channel = 2
    /\ ks.last.args = [KSNoArgs EXCEPT !.coupling = PyS("dc"), !.display = PyB(FALSE),
                                       !.offset = PyI(0), !.probe_attenuation = PyI(10)]
    /\ ks.last.err = None
    /\ ks.last.sent = <<KSCommand(2, "PROBe %fX", PyF(10 * PyScale)),
                        KSCommand(2, "COUPling %s", PyS("DC")),
                        KSCommand(2, "DISPlay %d", PyI(0)),
                        KSCommand(2, "OFFSet %f", PyF(0))>>

(***************************************************************************)
(* Keysight DSO1052B oscilloscope: the timebase of KeysightDSO1052B        *)
(* src/pymeasure/instruments/keysight/keysightDSO1052B.py                  *)
(***************************************************************************)

\* The timebase controls: the set command, whether strict_discrete_set
\* validates, the valid values (the keys of the dict) and the value each key
\* is mapped to.
TimebaseControl ==
    [timebase_format |->
        [values |-> <<PyS("yt"), PyS("xy"), PyS("roll")>>, mapped |-> <<PyS("YT"), PyS("XY"), PyS("ROLL")>>,
         set_command |-> ":TIMebase:FORMat %s",
         validated |-> TRUE],
     timebase_offset |->
        [values |-> <<>>, mapped |-> <<>>,
         set_command |-> ":TIMebase:OFFset %f", validated |-> FALSE],
     timebase_scale |->
        [values |-> <<>>, mapped |-> <<>>,
         set_command |-> ":TIMebase:SCALe %f", validated |-> FALSE],
     timebase_mode |->
        [values |-> <<PyS("main"), PyS("delayed")>>, mapped |-> <<PyS("MAIN"), PyS("DELayed")>>,
         set_command |-> ":TIMebase:MODE %s",
         validated |-> TRUE]]

\* set_command % value for the timebase commands: %f takes a number and
\* writes it as a float (a str raises TypeError), %s takes anything.
TimebaseFormat(set_command, value) ==
    IF set_command \in {":TIMebase:OFFset %f", ":TIMebase:SCALe %f"}
    THEN IF PyIsNum(value) THEN PyFloat(value) ELSE PyErr("TypeError")
    ELSE PyOk(value)

\* The state one call works on: the settings the oscilloscope was last
\* commanded to, the commands sent by the call, the exception raised.
ScopeCall(settings) == [sent |-> <<>>, err |-> None, settings |-> settings]

\* self.write(command): the command reaches the oscilloscope, which takes
\* the value over.
Scope_write(st, name, set_command, value) ==
    [st EXCEPT !.sent = Append(@, [arg |-> value, set_command |-> set_command]),
               !.settings[name] = value]

\* The setter Instrument.control builds: validate, map the value, format the
\* set command, write it.
Scope_fset(st, name, value) ==
    LET d == TimebaseControl[name]
        checked == IF d.validated THEN strict_discrete_set_py(value, d.values)
                   ELSE PyOk(value)
        mapped == IF checked.err = None /\ d.mapped # <<>>
                  THEN PyOk(d.mapped[CHOOSE i \in 1..Len(d.values) :
                                        /\ PyEq(value, d.values[i])
                                        /\ \A j \in 1..(i - 1) : ~PyEq(value, d.values[j])])
                  ELSE checked
        text == IF mapped.err = None THEN TimebaseFormat(d.set_command, mapped.val)
                ELSE mapped
    IN  IF text.err # None THEN [st EXCEPT !.err = text.err]
        ELSE Scope_write(st, name, d.set_command, text.val)

\* One statement of timebase_setup(): if <value> is not None:
\* self.<name> = <value>; a statement after an exception is not reached.
ScopeAssign(st, name, value) ==
    IF st.err # None \/ value = PyNone THEN st
    ELSE Scope_fset(st, name, value)

\* KeysightDSO1052B.timebase_setup(mode=None, offset=None, scale=None)
timebase_setup(st, mode, offset, scale) ==
    LET s1 == ScopeAssign(st, "timebase_mode", mode)
        s2 == ScopeAssign(s1, "timebase_offset", offset)
    IN  ScopeAssign(s2, "timebase_scale", scale)

\* ---- the timebase state machine ----

\* The arguments of the calls.
TimebaseModes ==
    {PyNone, PyS("main"), PyS("delayed"), PyS("yt"), PyS("xy"), PyS("roll")}
TimebaseOffsets == {PyNone, PyI(0), PyF(5000), PyS("a")}
TimebaseScales == {PyNone, PyF(10), PyI(2)}
TimebaseValues == TimebaseModes \cup TimebaseOffsets \cup TimebaseScales

\* The fields of scope:
\*   settings  timebase control -> the value the oscilloscope was last sent
\*             (absent: none since the driver was constructed)
\*   last      the most recent call: its arguments (for an assignment to one
\*             control, name and value), the commands sent, the exception
ScopeObject(st, op, name, mode, offset, scale) ==
    [last |-> [name |-> name, sent |-> st.sent, err |-> st.err, op |-> op,
               mode |-> mode, scale |-> scale, offset |-> offset],
     settings |-> st.settings]

\* KeysightDSO1052B.__init__: nothing is sent.
Scope_init ==
    ScopeObject(ScopeCall([timebase_format |-> PyAbsent, timebase_offset |-> PyAbsent,
                           timebase_scale |-> PyAbsent, timebase_mode |-> PyAbsent]),
                "init", "", PyNone, PyNone, PyNone)

ScopeStart == ScopeCall(scope.settings)

ScopeDone(op, name, mode, offset, scale, st) ==
    scope' = ScopeObject(st, op, name, mode, offset, scale) /\ UNCHANGED notScope

ScopeTimebaseSetup ==
    \E mode \in TimebaseModes, offset \in TimebaseOffsets, scale \in TimebaseScales :
        ScopeDone("timebase_setup", "", mode, offset, scale,
                  timebase_setup(ScopeStart, mode, offset, scale))

\* scope.<name> = value; the value is kept in the argument slot "mode".
ScopeSet == \E name \in DOMAIN TimebaseControl, value \in TimebaseValues \ {PyNone} :
    ScopeDone("set", name, value, PyNone, PyNone, Scope_fset(ScopeStart, name, value))

ScopeNext ==
    \/ ScopeTimebaseSetup
    \/ ScopeSet

\* ---- claims about timebase_setup ----

\* C11: timebase_setup(mode, offset, scale) takes "yt", "xy" and "roll" for
\* its mode: with one of them the call returns and has sent the timebase
\* command that carries the mode (YT, XY, ROLL), before any other command.
C11_ModeTakesYtXyRoll ==
    scope.last.op = "timebase_setup"
    /\ scope.last.mode \in {PyS("yt"), PyS("xy"), PyS("roll")} =>
        /\ scope.last.err = None
        /\ scope.last.sent # <<>>
        /\ scope.last.sent[1].arg =
              (CASE scope.last.mode = PyS("yt") -> PyS("YT")
                 [] scope.last.mode = PyS("xy") -> PyS("XY")
                 [] scope.last.mode = PyS("roll") -> PyS("ROLL"))

(***************************************************************************)
(* Measurement Computing DAQ boards: the daisy chain address of DAQModule  *)
(* src/pymeasure/instruments/mcc/daq_module_base.py                        *)
(***************************************************************************)

\* The digit characters hex() writes.
DAQHexChar ==
    <<"0", "1", "2", "3", "4", "5", "6", "7", "8", "9", "a", "b", "c", "d", "e", "f">>

\* The digits of n >= 0 to the base 16, most significant first.
RECURSIVE DAQHexDigits(_)
DAQHexDigits(n) ==
    IF n < 16 THEN <<DAQHexChar[n + 1]>>
    ELSE Append(DAQHexDigits(n \div 16), DAQHexChar[(n % 16) + 1])

\* hex(x): "0x..." for an int or bool, "-0x..." below zero; TypeError for a
\* float or a str.  The text is a sequence of characters.
hex(x) ==
    IF x.t \notin {"int", "bool"} THEN [err |-> "TypeError", chars |-> <<>>]
    ELSE [err |-> None,
          chars |-> IF x.n < 0 THEN <<"-", "0", "x">> \o DAQHexDigits(-x.n)
                    ELSE <<"0", "x">> \o DAQHexDigits(x.n)]

\* text.zfill(width): zeros on the left up to the width, after a leading sign.
zfill(chars, width) ==
    LET zeros == [i \in 1..(width - Len(chars)) |-> "0"]
    IN  IF Len(chars) >= width THEN chars
        ELSE IF chars # <<>> /\ chars[1] \in {"+", "-"}
             THEN <<chars[1]>> \o zeros \o SubSeq(chars, 2, Len(chars))
             ELSE zeros \o chars

\* value in range(start, stop): the value is a number equal to one of the
\* integers start, ..., stop - 1.
PyInRange(value, start, stop) ==
    /\ PyIsNum(value)
    /\ PyNum(value) % PyScale = 0
    /\ start * PyScale <= PyNum(value)
    /\ PyNum(value) < stop * PyScale

\* validators.strict_discrete_set(value, range(start, stop))
strict_discrete_set_range(value, start, stop) ==
    IF PyInRange(value, start, stop) THEN PyOk(value) ELSE PyErr("ValueError")

convert_address_to_hex_string_no_fill(address) ==
    LET checked == strict_discrete_set_range(address, 0, 256)
        address_hex == hex(address)
    IN  IF checked.err # None THEN [err |-> checked.err, chars |-> <<>>]
        ELSE IF address_hex.err # None THEN address_hex
        ELSE [err |-> None,
              chars |-> upper(SubSeq(address_hex.chars, 3, Len(address_hex.chars)))]

\* DAQModule.convert_address_to_hex_string(address)
convert_address_to_hex_string(address) ==
    LET checked == strict_discrete_set_range(address, 0, 256)
        address_hex == hex(address)
        address_split_upper ==
            upper(SubSeq(address_hex.chars, 3, Len(address_hex.chars)))
    IN  IF checked.err # None THEN [err |-> checked.err, chars |-> <<>>]
        ELSE IF address_hex.err # None THEN address_hex
        ELSE [err |-> None, chars |-> zfill(address_split_upper, 2)]

\* ---- the address state machine ----

\* How far beyond 0..255 the addresses tried go.
DAQOutside == 20

\* The addresses converted: the integers from -DAQOutside to 255 + DAQOutside,
\* floats inside and outside the range, a bool, strings.
DAQAddresses ==
    {PyI(a) : a \in (0 - DAQOutside)..(255 + DAQOutside)}
    \cup {PyF(10000), PyF(25000), PyF(2560000), PyB(TRUE), PyS("1"), PyS("0A")}

\* The addresses a module is constructed with.
DAQConstructAddresses == {PyI(0), PyI(1), PyI(10), PyI(255), PyI(256), PyS("1")}

\* The fields of daq:
\*   constructed  whether the constructor returned
\*   address      self.address, as characters
\*   last         the most recent call: its argument, the characters it
\*                returned, the exception raised
DAQObject(constructed, chars, op, arg, result) ==
    [last |-> [arg |-> arg, err |-> result.err, op |-> op, result |-> result.chars], address |-> chars,
     constructed |-> constructed]

\* DAQModule.__init__(adapter, address=...):
\* self.address = self.convert_address_to_hex_string(address)
DAQ_init(address) ==
    LET r == convert_address_to_hex_string(address)
    IN  DAQObject(r.err = None, r.chars, "init", address, r)

DAQDone(obj) == daq' = obj /\ UNCHANGED notDAQ

DAQConstruct == \E address \in DAQConstructAddresses : DAQDone(DAQ_init(address))

DAQConvert ==
    /\ daq.constructed
    /\ \E address \in DAQAddresses :
          DAQDone(DAQObject(TRUE, daq.address, "convert_address_to_hex_string",
                            address, convert_address_to_hex_string(address)))

DAQNext ==
    \/ DAQConstruct
    \/ DAQConvert

\* ---- claims about convert_address_to_hex_string ----

\* C12: convert_address_to_hex_string(a) returns for every integer a in
\* 0..255 exactly two upper-case hexadecimal digits whose value is a, and
\* raises ValueError for every number outside 0..255 (nothing is returned).
C12_TwoHexDigits ==
    daq.last.op = "convert_address_to_hex_string" =>
        /\ daq.last.arg.t = "int" /\ daq.last.arg.n \in 0..255 =>
              /\ daq.last.err = None
              /\ Len(daq.last.result) = 2
              /\ \A i \in 1..2 : daq.last.result[i] \in DOMAIN FWHexDigit
              /\ FWHexDigit[daq.last.result[1]] * 16 + FWHexDigit[daq.last.result[2]]
                    = daq.last.arg.n
        /\ PyIsNum(daq.last.arg)
           /\ (PyNum(daq.last.arg) < 0 \/ PyNum(daq.last.arg) > 255 * PyScale) =>
              /\ daq.last.err = "ValueError"
              /\ daq.last.result = <<>>

\* An address below 16 was converted: 10 gave "0A".
C12_Witness ==
    /\ daq.last.op = "convert_address_to_hex_string"
    /\ daq.last.arg = PyI(10)
    /\ daq.last.result = <<"0", "A">>
    /\ daq.last.err = None

(***************************************************************************)
(* Lake Shore 211 temperature monitor                                      *)
(* src/pymeasure/instruments/signal_recovery/lakeshore211.py               *)
(***************************************************************************)

\* A value of a property: one Python value (kind "scalar", one item), a
\* tuple or a list of them, or nothing (no value: the call raised, or
\* returned None).
LSScalar(x) == [kind |-> "scalar", items |-> <<x>>]
LSTuple(items) == [kind |-> "tuple", items |-> items]
LSList(items) == [kind |-> "list", items |-> items]
LSNothing == [kind |-> "none", items |-> <<>>]

LSOk(value) == [err |-> None, value |-> value]
LSErr(e) == [err |-> e, value |-> LSNothing]

\* The characters of a text, as one string.
RECURSIVE LSJoin(_)
LSJoin(chars) == IF chars = <<>> THEN "" ELSE chars[1] \o LSJoin(Tail(chars))

\* The decimal digits of n >= 0, as characters.
RECURSIVE LSDigitChars(_)
LSDigitChars(n) ==
    LET digit == <<"0", "1", "2", "3", "4", "5", "6", "7", "8", "9">>[(n % 10) + 1]
    IN  IF n < 10 THEN <<digit>> ELSE Append(LSDigitChars(n \div 10), digit)

\* What %d writes for an int.
LSDecimalChars(n) == IF n < 0 THEN <<"-">> \o LSDigitChars(-n) ELSE LSDigitChars(n)

\* The controls: get command, set command, the keys of values and what they
\* are mapped to (no values: empty), map_values.
LSControl ==
    [display |->
        [values |-> <<PyS("kelvin"), PyS("celsius"), PyS("sensor"), PyS("fahrenheit")>>, mapped |-> <<PyI(0), PyI(1), PyI(2), PyI(3)>>,
         set_command |-> "DISPFLD %d",
         get_command |-> "DISPFLD?", map_values |-> TRUE],
     analog |->
        [values |-> <<>>, mapped |-> <<>>,
         set_command |-> "ANALOG %d,%d", get_command |-> "ANALOG?", map_values |-> FALSE]]

LSMeasurement_swapped ==
    [analog_out |-> "AOUT?", temperature_celsius |-> "KRDG?",
     temperature_fahrenheit |-> "FRDG?", temperature_sensor |-> "SRDG?",
     temperature_kelvin |-> "CRDG?"]

\* The measurements and their get commands.
LSMeasurement ==
    [analog_out |-> "AOUT?", temperature_celsius |-> "CRDG?",
     temperature_fahrenheit |-> "FRDG?", temperature_sensor |-> "SRDG?",
     temperature_kelvin |-> "KRDG?"]

\* int(x[i]) (i from 0) for a list of values, a str (x[i] is its character
\* i) or a number (no items: TypeError); IndexError beyond the end.
LSIntAt(x, i) ==
    IF x.kind # "scalar"
    THEN IF i + 1 > Len(x.items) THEN PyErr("IndexError") ELSE PyInt(x.items[i + 1])
    ELSE IF PyIsNum(x.items[1]) THEN PyErr("TypeError")
    ELSE IF i + 1 > Len(x.items[1].s) THEN PyErr("IndexError")
    ELSE PyInt(PyS(SubSeq(x.items[1].s, i + 1, i + 1)))

\* The pair in the other order.
LS_analog_get_process_swapped(x) ==
    LET a == LSIntAt(x, 0)
        b == LSIntAt(x, 1)
    IN  IF a.err # None THEN LSErr(a.err)
        ELSE IF b.err # None THEN LSErr(b.err)
        ELSE LSOk(LSTuple(<<b.val, a.val>>))

\* The get_process of analog: lambda x: (int(x[0]), int(x[1])).
LS_analog_get_process(x) ==
    LET a == LSIntAt(x, 0)
        b == LSIntAt(x, 1)
    IN  IF a.err # None THEN LSErr(a.err)
        ELSE IF b.err # None THEN LSErr(b.err)
        ELSE LSOk(LSTuple(<<a.val, b.val>>))

\* get_process of a property: analog has one, the others return the value.
LS_get_process(name, x) ==
    IF name = "analog" THEN LS_analog_get_process(x) ELSE LSOk(x)

\* set_command % value: every %d takes one item of the value (a tuple gives
\* its items, any other value is the one item); too few or too many items,
\* or an item that is no number, raise TypeError.  %d cuts a float.
LSFormat(set_command, value) ==
    LET head == IF set_command = "ANALOG %d,%d" THEN "ANALOG " ELSE "DISPFLD "
        conversions == IF set_command = "ANALOG %d,%d" THEN 2 ELSE 1
        items == value.items
        text(i) == LSJoin(LSDecimalChars(PyInt(items[i]).val.n))
    IN  IF value.kind = "list" /\ conversions = 1 THEN [err |-> "TypeError", text |-> ""]
        ELSE IF Len(items) # conversions \/ value.kind = "list"
             THEN [err |-> "TypeError", text |-> ""]
        ELSE IF \E i \in 1..Len(items) : ~PyIsNum(items[i])
             THEN [err |-> "TypeError", text |-> ""]
        ELSE [err |-> None,
              text |-> IF conversions = 2 THEN head \o text(1) \o "," \o text(2)
                       ELSE head \o text(1)]

\* Instrument.values(command) on the reply read: split at the commas, every
\* part float() reads becomes a float, the others stay str.
LS_values(reply) ==
    LET parts == split(reply, ",")
    IN  [i \in 1..Len(parts) |->
            IF OmegaFloat(parts[i]).err = None THEN OmegaFloat(parts[i]).val
            ELSE PyS(LSJoin(parts[i]))]

\* The state one call works on: what it wrote, how many replies it read.
LSCall == [sent |-> <<>>, reads |-> 0, err |-> None, value |-> LSNothing]

\* The getter Instrument.control and Instrument.measurement build: ask the
\* get command, split the reply into values; one value goes through
\* get_process and the mapping, several values through get_process only.
LS_fget(st, get_command, name, reply) ==
    LET asked == [st EXCEPT !.sent = Append(@, get_command), !.reads = @ + 1]
        vals == LS_values(reply)
        d == LSControl[name]
        one == LS_get_process(name, LSScalar(vals[1]))
        found == {i \in 1..Len(d.mapped) : PyEq(d.mapped[i], one.value.items[1])}
        several == LS_get_process(name, LSList(vals))
    IN  IF Len(vals) = 1
        THEN IF one.err # None THEN [asked EXCEPT !.err = one.err]
             ELSE IF name \notin DOMAIN LSControl \/ ~d.map_values
                  THEN [asked EXCEPT !.value = one.value]
             ELSE IF one.value.kind # "scalar" \/ found = {}
                  THEN [asked EXCEPT !.err = "KeyError"]
             ELSE [asked EXCEPT !.value =
                      LSScalar(d.values[CHOOSE i \in found : \A j \in found : i <= j])]
        ELSE IF several.err # None THEN [asked EXCEPT !.err = several.err]
             ELSE [asked EXCEPT !.value = several.value]

\* The setter Instrument.control builds: no validator is given, so the value
\* is only mapped (a value that is no key raises KeyError; a tuple or list
\* is no key), formatted into the set command and written.
LS_fset(st, name, value) ==
    LET d == LSControl[name]
        found == {i \in 1..Len(d.values) :
                     value.kind = "scalar" /\ PyEq(d.values[i], value.items[1])}
        mapped == IF ~d.map_values THEN LSOk(value)
                  ELSE IF value.kind = "list" THEN LSErr("TypeError")
                  ELSE IF found = {} THEN LSErr("KeyError")
                  ELSE LSOk(LSScalar(d.mapped[CHOOSE i \in found : \A j \in found : i <= j]))
        command == LSFormat(d.set_command, mapped.value)
    IN  IF mapped.err # None THEN [st EXCEPT !.err = mapped.err]
        ELSE IF command.err # None THEN [st EXCEPT !.err = command.err]
        ELSE [st EXCEPT !.sent = Append(@, command.text)]

\* ---- the Lake Shore 211 state machine ----

\* The values assigned to the controls.
LSDisplayValues ==
    {LSScalar(PyS(k)) : k \in {"kelvin", "celsius", "sensor", "fahrenheit", "rankine"}}
    \cup {LSScalar(PyI(1))}
LSAnalogValues ==
    {LSTuple(<<PyI(m), PyI(r)>>) : m \in 0..1, r \in {0, 1, 5, 10}}
    \cup {LSTuple(<<PyF(5000), PyI(1)>>), LSScalar(PyI(1)),
          LSTuple(<<PyI(0), PyS("a")>>), LSTuple(<<PyI(0), PyI(1), PyI(2)>>)}

\* The replies of the instrument, as characters.
LSReplies ==
    {<<"0">>, <<"1">>, <<"2">>, <<"3">>, <<"4">>, <<"0", ",", "1">>,
     <<"1", ",", "5">>, <<"1", ",", "1", "0">>, <<"1", ",", "a">>,
     <<"2", "7", ".", "1">>, <<"-", "3", ".", "5">>, <<"a">>, <<>>}

\* The fields of ls:
\*   lastSet   control -> the value last assigned without an exception
\*   last      the most recent call: the property, the value assigned, what
\*             the call wrote, how many replies it read, the reply, the
\*             value returned, the exception raised
LSObject(lastSet, st, op, name, value, reply) ==
    [last |-> [name |-> name, sent |-> st.sent, reads |-> st.reads, err |-> st.err,
               reply |-> reply, value |-> value, op |-> op,
               result |-> st.value],
     lastSet |-> lastSet]

\* LakeShore211.__init__: the Instrument is set up, nothing is written or read.
LakeShore211_init ==
    LSObject([display |-> LSNothing, analog |-> LSNothing], LSCall,
             "init", "", LSNothing, <<>>)

LSDone(obj) == ls' = obj /\ UNCHANGED notLS

LSConstruct == LSDone(LakeShore211_init)

\* instr.<control> = value
LSSet ==
    \E name \in DOMAIN LSControl :
        \E value \in IF name = "display" THEN LSDisplayValues ELSE LSAnalogValues :
            LET st == LS_fset(LSCall, name, value)
            IN  LSDone(LSObject(IF st.err = None
                                THEN [ls.lastSet EXCEPT ![name] = value]
                                ELSE ls.lastSet,
                                st, "set", name, value, <<>>))

\* instr.<control>
LSGet ==
    \E name \in DOMAIN LSControl, reply \in LSReplies :
        LSDone(LSObject(ls.lastSet,
                        LS_fget(LSCall, LSControl[name].get_command, name, reply),
                        "get", name, LSNothing, reply))

\* instr.<measurement>
LSMeasure ==
    \E name \in DOMAIN LSMeasurement, reply \in LSReplies :
        LSDone(LSObject(ls.lastSet,
                        LS_fget(LSCall, LSMeasurement[name], name, reply),
                        "get", name, LSNothing, reply))

LSNext ==
    \/ LSConstruct
    \/ LSSet
    \/ LSGet
    \/ LSMeasure

\* ---- claims about the Lake Shore 211 ----

\* The integer the instrument displays each unit under.
LSDisplayInteger == [kelvin |-> 0, celsius |-> 1, sensor |-> 2, fahrenheit |-> 3]

LSIsDisplayKey(value) ==
    value.kind = "scalar" /\ value.items[1].t = "str"
    /\ value.items[1].s \in DOMAIN LSDisplayInteger

LSIsIntPair(value) ==
    value.kind = "tuple" /\ Len(value.items) = 2
    /\ \A i \in 1..2 : value.items[i].t = "int"

\* C13: the controls round-trip.  Setting display to one of kelvin, celsius,
\* sensor, fahrenheit writes "DISPFLD <integer of the key>" and reads
\* nothing; a read of display after it writes "DISPFLD?" and, when the reply
\* is that integer, returns the key.  Setting analog to a pair of integers
\* writes "ANALOG <mode>,<range>"; a read of analog after it writes
\* "ANALOG?" and, when the reply is "<mode>,<range>", returns the pair.
C13_ControlsRoundTrip ==
    /\ ls.last.op = "set" /\ ls.last.name = "display" /\ LSIsDisplayKey(ls.last.value) =>
          /\ ls.last.err = None
          /\ ls.last.reads = 0
          /\ ls.last.sent =
                <<"DISPFLD " \o LSJoin(LSDecimalChars(
                                   LSDisplayInteger[ls.last.value.items[1].s]))>>
    /\ ls.last.op = "get" /\ ls.last.name = "display" /\ LSIsDisplayKey(ls.lastSet.display)
       /\ ls.last.reply = LSDecimalChars(LSDisplayInteger[ls.lastSet.display.items[1].s]) =>
          /\ ls.last.err = None
          /\ ls.last.sent = <<"DISPFLD?">>
          /\ ls.last.result = ls.lastSet.display
    /\ ls.last.op = "set" /\ ls.last.name = "analog" /\ LSIsIntPair(ls.last.value) =>
          /\ ls.last.err = None
          /\ ls.last.reads = 0
          /\ ls.last.sent =
                <<"ANALOG " \o LSJoin(LSDecimalChars(ls.last.value.items[1].n))
                  \o "," \o LSJoin(LSDecimalChars(ls.last.value.items[2].n))>>
    /\ ls.last.op = "get" /\ ls.last.name = "analog" /\ LSIsIntPair(ls.lastSet.analog)
       /\ ls.last.reply = LSDecimalChars(ls.lastSet.analog.items[1].n) \o <<",">>
                          \o LSDecimalChars(ls.lastSet.analog.items[2].n) =>
          /\ ls.last.err = None
          /\ ls.last.sent = <<"ANALOG?">>
          /\ ls.last.result = ls.lastSet.analog

\* display was set to celsius and analog to (1, 10), and a read of analog
\* that was replied "1,10" returned (1, 10).
C13_Witness ==
    /\ ls.lastSet.display = LSScalar(PyS("celsius"))
    /\ ls.lastSet.analog = LSTuple(<<PyI(1), PyI(10)>>)
    /\ ls.last.op = "get" /\ ls.last.name = "analog"
    /\ ls.last.reply = <<"1", ",", "1", "0">>
    /\ ls.last.sent = <<"ANALOG?">>
    /\ ls.last.result = LSTuple(<<PyI(1), PyI(10)>>)

\* The numbers of the replies that are one number, in 1/PyScale.
LSReplyNumber ==
    (<<"0">> :> 0) @@ (<<"1">> :> 10000) @@ (<<"2">> :> 20000) @@
    (<<"3">> :> 30000) @@ (<<"4">> :> 40000) @@
    (<<"2", "7", ".", "1">> :> 271000) @@ (<<"-", "3", ".", "5">> :> -35000)

\* C14: constructing a LakeShore211 writes and reads nothing; a read of
\* temperature_kelvin writes "KRDG?" and a read of temperature_celsius
\* writes "CRDG?", each reads one reply and neither writes anything else; a
\* reply that is one number is returned as that number.
C14_OneQueryPerReading ==
    /\ ls.last.op = "init" => ls.last.sent = <<>> /\ ls.last.reads = 0
    /\ ls.last.op = "get"
       /\ ls.last.name \in {"temperature_kelvin", "temperature_celsius"} =>
          /\ ls.last.sent = <<IF ls.last.name = "temperature_kelvin"
                              THEN "KRDG?" ELSE "CRDG?">>
          /\ ls.last.reads = 1
          /\ ls.last.reply \in DOMAIN LSReplyNumber =>
                /\ ls.last.err = None
                /\ ls.last.result = LSScalar(PyF(LSReplyNumber[ls.last.reply]))

\* temperature_kelvin was read and the reply "27.1" came back as 27.1.
C14_Witness ==
    /\ ls.last.op = "get" /\ ls.last.name = "temperature_kelvin"
    /\ ls.last.sent = <<"KRDG?">>
    /\ ls.last.reply = <<"2", "7", ".", "1">>
    /\ ls.last.result = LSScalar(PyF(271000))

(***************************************************************************)
(* ManagedConsole: when the console application quits                      *)
(* src/pymeasure/display/console.py                                        *)
(***************************************************************************)

\* ---- the Manager the console owns (pymeasure.display.manager) ----

\* ExperimentQueue.has_next(): some experiment's procedure is still QUEUED.
\* The queue is the sequence of the procedures' statuses.
has_next(experiments) == \E i \in 1..Len(experiments) : experiments[i] = "QUEUED"

\* Manager.next(): start the first queued experiment, if there is one.
Manager_next(st) ==
    IF ~has_next(st.experiments) THEN st
    ELSE LET i == CHOOSE k \in 1..Len(st.experiments) :
                      /\ st.experiments[k] = "QUEUED"
                      /\ \A j \in 1..(k - 1) : st.experiments[j] # "QUEUED"
         IN  [st EXCEPT !.experiments[i] = "RUNNING", !.running = i]

\* Manager.queue(experiment): add it, and start it when nothing runs and
\* experiments start as they are added.
Manager_queue(st) ==
    LET added == [st EXCEPT !.experiments = Append(@, "QUEUED")]
    IN  IF st.start_on_add /\ st.running = 0 THEN Manager_next(added) ELSE added

\* Manager.abort(): stop the worker; nothing starts by itself afterwards.
Manager_abort(st) ==
    [st EXCEPT !.start_on_add = FALSE, !.is_continuous = FALSE, !.stopping = TRUE]

\* ---- ManagedConsole ----

Console_terminate_always(st) ==
    [st EXCEPT !.bar = IF @ = "open" THEN "closed" ELSE @, !.quit = TRUE]

\* ManagedConsole._terminate(debug_message, update_bar=None)
Console_terminate(st) ==
    IF ~has_next(st.experiments)
    THEN [st EXCEPT !.bar = IF @ = "open" THEN "closed" ELSE @, !.quit = TRUE]
    ELSE st

\* The slots __init__ connects to the manager's signals abort_returned,
\* failed and finished; each calls _terminate.
Console_slot(st, signal) ==
    IF signal \in {"abort_returned", "failed", "finished"}
    THEN [Console_terminate(st) EXCEPT !.last = signal]
    ELSE st

\* The manager's handler of the worker's end: forget the worker, emit the
\* signal (the console's slot runs), and after a finished experiment start
\* the next one if experiments run continuously.
Manager_signal(st, signal) ==
    LET cleaned == [st EXCEPT !.running = 0, !.stopping = FALSE, !.pending = "none"]
        emitted == Console_slot(cleaned, signal)
    IN  IF signal = "finished" /\ emitted.is_continuous THEN Manager_next(emitted)
        ELSE emitted

\* ---- the console state machine ----

\* How many experiments are queued over the life of the application.
MaxExperiments == 4

\* The fields of con:
\*   experiments    the manager's queue: the status of each procedure
\*   running        the place of the running experiment in the queue, 0: none
\*   start_on_add, is_continuous   the manager's flags
\*   stopping       the worker was told to stop
\*   pending        the worker ended and the manager has not handled it yet:
\*                  the signal the manager will emit
\*   bar            the progress bar: "none", "open", "closed"
\*   quit           quit() was called
\*   last           the signal whose slot ran last
\* ManagedConsole.__init__: a Manager with an empty queue, the three slots
\* connected, the progress bar unless tqdm is missing or switched off.
Console_init(bar) ==
    [last |-> "none", experiments |-> <<>>, running |-> 0,
     start_on_add |-> TRUE, is_continuous |-> TRUE, stopping |-> FALSE,
     bar |-> bar, quit |-> FALSE, pending |-> "none"]

ConDone(st) == con' = st /\ UNCHANGED notCon

\* self.manager.queue(self.new_experiment(results))
ConQueue ==
    /\ ~con.quit
    /\ Len(con.experiments) < MaxExperiments
    /\ ConDone(Manager_queue(con))

\* ManagedConsole.abort(), on Ctrl+C (the manager raises when nothing runs).
ConAbort ==
    /\ ~con.quit
    /\ con.running # 0
    /\ ConDone(Manager_abort(con))

\* The worker ends: the procedure finished or failed, or it stopped after an
\* abort.  The monitor tells the manager, whose handler runs later.
ConWorkerEnds ==
    /\ ~con.quit
    /\ con.running # 0 /\ con.pending = "none"
    /\ \E end \in IF con.stopping THEN {"ABORTED"} ELSE {"FINISHED", "FAILED"} :
          ConDone([con EXCEPT !.experiments[con.running] = end,
                              !.pending = CASE end = "FINISHED" -> "finished"
                                            [] end = "FAILED" -> "failed"
                                            [] end = "ABORTED" -> "abort_returned"])

\* The manager handles the end of the worker and emits its signal.
ConSignal ==
    /\ ~con.quit
    /\ con.pending # "none"
    /\ ConDone(Manager_signal(con, con.pending))

ConNext ==
    \/ ConQueue
    \/ ConAbort
    \/ ConWorkerEnds
    \/ ConSignal

\* ---- claims about ManagedConsole ----

\* C15: whenever the manager signals finished, failed or abort_returned,
\* the console quits, closing its progress bar, if and only if no
\* experiment of the manager is waiting in the queue; with an experiment
\* still queued it keeps running and leaves the bar alone.
C15_QuitsIffNothingWaiting ==
    [][con.pending \in {"finished", "failed", "abort_returned"}
       /\ con'.pending = "none" =>
          /\ con'.last = con.pending
          /\ con'.quit <=> ~(\E i \in DOMAIN con.experiments : con.experiments[i] = "QUEUED")
          /\ con'.quit /\ con.bar = "open" => con'.bar = "closed"
          /\ ~con'.quit => con'.bar = con.bar]_vars

\* The second of two experiments finished with nothing left in the queue:
\* the console closed its bar and quit.
C15_Witness ==
    /\ con.quit
    /\ con.bar = "closed"
    /\ con.last = "finished"
    /\ Len(con.experiments) = 2
    /\ con.experiments[2] = "FINISHED"

(***************************************************************************)
(* OverlayWidget: the labels the refresh timer keeps up to date            *)
(* src/pymeasure/display/widgets/overlay_widget.py                         *)
(***************************************************************************)

\* The keys of boxes: the data columns that have a label, as characters.
OVColumnChars ==
    [temperature |-> <<"T", "e", "m", "p", "e", "r", "a", "t", "u", "r", "e", " ",
                       "(", "K", ")">>,
     field |-> <<"F", "i", "e", "l", "d", " ", "(", "T", ")">>]
OVColumns == DOMAIN OVColumnChars

\* The experiments whose results the widget can show.
OVResults == {1, 2}

\* How many rows the data of one experiment gets.
MaxRows == 2
\* A row of the data is its reading k: k in the column temperature and
\* 1000 k + 0.5 in the column field.  The reading of a procedure's row is the
\* number of the row.
OVValue(column, k) ==
    IF column = "temperature" THEN PyI(k) ELSE PyF(1000 * k * PyScale + 5000)

\* The decimals of a fraction given in 1/PyScale, without the zeros at the end.
RECURSIVE OVFraction(_, _)
OVFraction(frac, unit) ==
    IF frac = 0 THEN <<>>
    ELSE <<LSDigitChars(frac \div unit)[1]>> \o OVFraction(frac % unit, unit \div 10)

\* "%g" % x, for the numbers of the model: at most six significant digits
\* and a size %g writes without an exponent.
OVPercent_g(x) ==
    LET n == PyNum(x)
        size == IF n < 0 THEN -n ELSE n
        frac == OVFraction(size % PyScale, PyScale \div 10)
    IN  (IF n < 0 THEN <<"-">> ELSE <<>>)
        \o LSDigitChars(size \div PyScale)
        \o (IF frac = <<>> THEN <<>> ELSE <<".">> \o frac)

\* QLineEdit.setText on a label of _setup_ui, which has setMaxLength(5): the
\* text is cut to five characters.
OV_setText(chars) ==
    LSJoin(IF Len(chars) > 5 THEN SubSeq(chars, 1, 5) ELSE chars)

\* "%g" % data[column].iloc[-1], as the label shows it.
OVLastRow(data, column) == OV_setText(OVPercent_g(OVValue(column, data[Len(data)])))

\* The calls of new_curve a run tells apart, and how many boxes the widget
\* holds at most.
OVCurves == {1, 2}
MaxBoxes == 3

\* OverlayWidget.new_curve(results): one new ResultsBox for every column of
\* boxes, each with the label of its column.  A ResultsBox is the object it
\* is, whatever its fields: curve is the call that made it, so the boxes of
\* two calls for the same results are different members of a set.
new_curve(results, curve) ==
    {[column |-> c, results |-> results, curve |-> curve] : c \in OVColumns}

\* ResultsBox.update_data(): the label takes the last row of the box's own
\* data, unless the data is empty.
ResultsBox_update_data(w, box) ==
    IF w.data[box.results] # <<>>
    THEN [w EXCEPT !.labels[box.column] = OVLastRow(w.data[box.results], box.column)]
    ELSE w

\* OverlayWidget.load(curve): update_data of the box, then the box joins the
\* set; for a box that is loaded already the set stays as it is.
OV_load(w, box) ==
    [ResultsBox_update_data(w, box) EXCEPT !.result_boxes = @ \cup {box}]

\* OverlayWidget.remove(curve): set.remove raises KeyError for a box that is
\* not loaded.
OV_remove(w, box) ==
    IF box \in w.result_boxes
    THEN [w EXCEPT !.result_boxes = @ \ {box}]
    ELSE [w EXCEPT !.err = "KeyError"]

\* The loop body of update_curves for one item.
OVUpdateItem(w, data, item) ==
    IF w.check_status
    THEN IF w.status[item.results] = "RUNNING"
         THEN [w EXCEPT !.labels[item.column] = OVLastRow(data, item.column)]
         ELSE w
    ELSE [w EXCEPT !.labels[item.column] = OVLastRow(data, item.column)]

\* The loop of update_curves over the items.  Every item writes the same
\* data's last row of its column, so the labels after the loop are the same
\* in whatever order the set gives the items.
RECURSIVE OVUpdateItems(_, _, _)
OVUpdateItems(w, data, items) ==
    IF items = {} THEN w
    ELSE LET item == CHOOSE b \in items : TRUE
         IN  OVUpdateItems(OVUpdateItem(w, data, item), data, items \ {item})

\* OverlayWidget.update_curves(): first_box is the box the iteration of the
\* set gives first; the data is that of its results, for every item.
update_curves(w, first_box) ==
    IF w.data[first_box.results] # <<>>
    THEN OVUpdateItems(w, w.data[first_box.results], w.result_boxes)
    ELSE w

\* ---- the widget state machine ----

\* The boxes a run makes.
OVBoxes == UNION {new_curve(r, curve) : r \in OVResults, curve \in OVCurves}

\* The fields of ov:
\*   check_status   the constructor's argument
\*   labels         column -> the text of its label
\*   result_boxes   the boxes loaded
\*   status         experiment -> the status of its procedure
\*   data           experiment -> the readings of its rows so far
\*   last           the most recent call on the widget
\*   err            the exception it raised, or None
\* OverlayWidget.__init__ and _setup_ui: a label for every column, showing
\* the column's name from its 13th character on; no box is loaded; the timer
\* is started and calls update_curves at every timeout.
OverlayWidget_init(check_status) ==
    [err |-> None,
     last |-> "init",
     data |-> [r \in OVResults |-> <<>>],
     labels |-> [c \in OVColumns |->
                    OV_setText(SubSeq(OVColumnChars[c], 13, Len(OVColumnChars[c])))],
     result_boxes |-> {},
     check_status |-> check_status,
     status |-> [r \in OVResults |-> "QUEUED"]]

OVCall == [ov EXCEPT !.err = None]

OVDone(w, op) == ov' = [w EXCEPT !.last = op] /\ UNCHANGED notOV

\* widget.load(box) for a box of new_curve(results), loaded already or not
OVLoad ==
    \E r \in OVResults, curve \in OVCurves : \E box \in new_curve(r, curve) :
        /\ Cardinality(ov.result_boxes \cup {box}) <= MaxBoxes
        /\ OVDone(OV_load(OVCall, box), "load")

\* widget.remove(box)
OVRemove == \E box \in OVBoxes : OVDone(OV_remove(OVCall, box), "remove")

\* The timer's timeout: the set gives any of its boxes first; with no box
\* loaded update_curves does nothing.
OVTick ==
    \/ /\ ov.result_boxes = {}
       /\ OVDone(OVCall, "tick")
    \/ \E first_box \in ov.result_boxes :
           OVDone(update_curves(OVCall, first_box), "tick")

\* The manager starts the next experiment; one runs at a time.
OVStart ==
    \E r \in OVResults :
        /\ ov.status[r] = "QUEUED"
        /\ \A q \in OVResults : ov.status[q] # "RUNNING"
        /\ OVDone([OVCall EXCEPT !.status[r] = "RUNNING"], "start")

\* The running procedure emits a row.
OVEmit ==
    \E r \in OVResults :
        /\ ov.status[r] = "RUNNING"
        /\ Len(ov.data[r]) < MaxRows
        /\ OVDone([OVCall EXCEPT !.data[r] = Append(@, Len(@) + 1)], "emit")

\* The running procedure ends.
OVFinish ==
    \E r \in OVResults :
        /\ ov.status[r] = "RUNNING"
        /\ OVDone([OVCall EXCEPT !.status[r] = "FINISHED"], "finish")

OVNext ==
    \/ OVLoad
    \/ OVRemove
    \/ OVTick
    \/ OVStart
    \/ OVEmit
    \/ OVFinish

\* ---- claims about OverlayWidget ----

\* The loaded boxes of a column.
OVBoxesOf(c) == {b \in ov.result_boxes : b.column = c}

\* C16: at a timer tick, with check_status enabled a label changes only
\* while the procedure of a loaded box of that label is RUNNING, so the
\* label of boxes whose procedures are no longer RUNNING keeps its text;
\* with check_status disabled and data that is not empty, a label whose
\* loaded boxes show one experiment takes the last row of their column in
\* that experiment's data; with no box loaded, or with empty data, no label
\* changes.  (Data that is not empty: of every loaded box; empty: of every
\* loaded box.)
C16_TickShowsBoxData ==
    [][ov'.last = "tick" =>
        /\ ov.check_status =>
              \A c \in OVColumns :
                  ov'.labels[c] # ov.labels[c] =>
                      \E b \in OVBoxesOf(c) : ov.status[b.results] = "RUNNING"
        /\ /\ ~ov.check_status
           /\ ov.result_boxes # {}
           /\ \A b \in ov.result_boxes : ov.data[b.results] # <<>>
           => \A b \in ov.result_boxes :
                  (\A other \in OVBoxesOf(b.column) : other.results = b.results) =>
                      ov'.labels[b.column] = OVLastRow(ov.data[b.results], b.column)
        /\ (\A b \in ov.result_boxes : ov.data[b.results] = <<>>) =>
              ov'.labels = ov.labels]_vars

(***************************************************************************)
(* Specifications                                                          *)
(***************************************************************************)

InitTDK ==
    /\ tdk \in {o \in {TDK_init(TDKSession(<<>>, supply), a) :
                          supply \in TDKSupplies, a \in TDKAddresses} :
                 o.last.err = None}
    /\ hp = HP_init
    /\ fw = FWAbsent
    /\ om = Omega_init
    /\ ks = Channel_init
    /\ scope = Scope_init
    /\ daq = DAQ_init(PyI(1))
    /\ ls = LakeShore211_init
    /\ con = Console_init("open")
    /\ ov = OverlayWidget_init(TRUE)

SpecTDK == InitTDK /\ [][TDKNext]_vars

InitHP ==
    /\ tdk = TDKAbsent
    /\ hp = HP_init
    /\ fw = FWAbsent
    /\ om = Omega_init
    /\ ks = Channel_init
    /\ scope = Scope_init
    /\ daq = DAQ_init(PyI(1))
    /\ ls = LakeShore211_init
    /\ con = Console_init("open")
    /\ ov = OverlayWidget_init(TRUE)

SpecHP == InitHP /\ [][HPNext]_vars

InitFW ==
    /\ tdk = TDKAbsent
    /\ hp = HP_init
    /\ fw \in {o \in {FW_init(dev) : dev \in FWDevice} : o.last.err = None}
    /\ om = Omega_init
    /\ ks = Channel_init
    /\ scope = Scope_init
    /\ daq = DAQ_init(PyI(1))
    /\ ls = LakeShore211_init
    /\ con = Console_init("open")
    /\ ov = OverlayWidget_init(TRUE)

SpecFW == InitFW /\ [][FWNext]_vars

InitOmega ==
    /\ tdk = TDKAbsent
    /\ hp = HP_init
    /\ fw = FWAbsent
    /\ om = Omega_init
    /\ ks = Channel_init
    /\ scope = Scope_init
    /\ daq = DAQ_init(PyI(1))
    /\ ls = LakeShore211_init
    /\ con = Console_init("open")
    /\ ov = OverlayWidget_init(TRUE)

SpecOmega == InitOmega /\ [][OmegaNext]_vars

InitKS ==
    /\ tdk = TDKAbsent
    /\ hp = HP_init
    /\ fw = FWAbsent
    /\ om = Omega_init
    /\ ks = Channel_init
    /\ scope = Scope_init
    /\ daq = DAQ_init(PyI(1))
    /\ ls = LakeShore211_init
    /\ con = Console_init("open")
    /\ ov = OverlayWidget_init(TRUE)

SpecKS == InitKS /\ [][KSNext]_vars

InitScope ==
    /\ tdk = TDKAbsent
    /\ hp = HP_init
    /\ fw = FWAbsent
    /\ om = Omega_init
    /\ ks = Channel_init
    /\ scope = Scope_init
    /\ daq = DAQ_init(PyI(1))
    /\ ls = LakeShore211_init
    /\ con = Console_init("open")
    /\ ov = OverlayWidget_init(TRUE)

SpecScope == InitScope /\ [][ScopeNext]_vars

InitDAQ ==
    /\ tdk = TDKAbsent
    /\ hp = HP_init
    /\ fw = FWAbsent
    /\ om = Omega_init
    /\ ks = Channel_init
    /\ scope = Scope_init
    /\ daq = DAQ_init(PyI(1))
    /\ ls = LakeShore211_init
    /\ con = Console_init("open")
    /\ ov = OverlayWidget_init(TRUE)

SpecDAQ == InitDAQ /\ [][DAQNext]_vars

InitLS ==
    /\ tdk = TDKAbsent
    /\ hp = HP_init
    /\ fw = FWAbsent
    /\ om = Omega_init
    /\ ks = Channel_init
    /\ scope = Scope_init
    /\ daq = DAQ_init(PyI(1))
    /\ ls = LakeShore211_init
    /\ con = Console_init("open")
    /\ ov = OverlayWidget_init(TRUE)

SpecLS == InitLS /\ [][LSNext]_vars

InitCon ==
    /\ tdk = TDKAbsent
    /\ hp = HP_init
    /\ fw = FWAbsent
    /\ om = Omega_init
    /\ ks = Channel_init
    /\ scope = Scope_init
    /\ daq = DAQ_init(PyI(1))
    /\ ls = LakeShore211_init
    /\ con \in {Console_init(bar) : bar \in {"none", "open"}}
    /\ ov = OverlayWidget_init(TRUE)

SpecCon == InitCon /\ [][ConNext]_vars

InitOV ==
    /\ tdk = TDKAbsent
    /\ hp = HP_init
    /\ fw = FWAbsent
    /\ om = Omega_init
    /\ ks = Channel_init
    /\ scope = Scope_init
    /\ daq = DAQ_init(PyI(1))
    /\ ls = LakeShore211_init
    /\ con = Console_init("open")
    /\ ov \in {OverlayWidget_init(check_status) : check_status \in BOOLEAN}

SpecOV == InitOV /\ [][OVNext]_vars
====
